---- MODULE Spec2Model ----
(***************************************************************************)
(* Model of the auth service of aws-payment-gateway: the API key registry  *)
(* (issue / validate / revoke, DynamoDB rows with their index attributes), *)
(* the idempotency ledger with its HTTP middleware chain, and the          *)
(* fixed-window rate limiter.                                              *)
(*                                                                         *)
(* Conventions: uuid.New() and GenerateAPIKey() return the next unused     *)
(* positive integer (fresh values); a nil pointer / uuid.Nil / empty       *)
(* string is NoID, NoRaw, NoTime or NoHash.  A handler reads the clock     *)
(* once: all its time.Now() calls see the same instant `now`.              *)
(***************************************************************************)
EXTENDS Integers, Sequences, FiniteSets, Bags, TLC

(* ------------------------------ bounds -------------------------------- *)
MaxTime == 2        \* last instant of the clock (hours) in the key registry
MaxKeys == 1        \* number of API key rows that may be created
MaxIdemTicks == 3   \* clock steps (of half a retention period) in the idempotency ledger
MaxRecords == 2     \* number of idempotency rows that may be created
MaxRequests == 2    \* number of HTTP requests through the idempotency middleware
MaxClock == 6       \* last instant of the rate limiter's clock, in half seconds
MaxCeiling == 2     \* largest configured ceiling of the rate limiter
MaxCallers == 2     \* CheckRateLimit calls that may be in progress together
MaxListed == 3      \* number of API key rows in the listing of keys
MaxEvents == 2      \* audit events the audit store may accept
MaxSecond == 1      \* seconds the clock may advance within an hour

(* ------------------------- program constants -------------------------- *)
IdempotencyTTL == 24   \* hours: ExpiresAt = now.Add(24 * time.Hour)
AuditTTL == 7776000    \* seconds: time.Now().Add(90 * 24 * time.Hour)

(* --------------------------- nil values ------------------------------- *)
NoID == 0
NoRaw == 0
NoTime == -1
NoHash == [alg |-> "none", of |-> 0]
NoAttr == [prefix |-> "none", v |-> NoHash]

VARIABLES
    now,        \* time.Now()
    accounts,   \* account store: account id -> status ("none" = no row)
    apiKeys,    \* DynamoDB API key rows, indexed by key id
    revoked,    \* history: key ids for which RevokeApiKey.Execute returned success
    lastOp,     \* history: the last use-case call with its inputs and result
    statusBefore, \* history: status of the addressed row when the last Revoke began
    idem,       \* DynamoDB idempotency rows, indexed by record id
    reqs,       \* HTTP requests in the idempotency middleware chain
    idemOp,     \* history: the last CompleteIdempotency.Execute call and its result
    clock,      \* time.Now() of the rate limiter, in half seconds
    config,     \* RateLimitConfig: Requests (ceiling) and Window (seconds)
    limit,      \* the DynamoDB rate limit item of RateKey (NoEntry = no item)
    calls,      \* bag of the CheckRateLimit calls between GetItem and PutItem
    rateOp,     \* history: the last finished createHandler call
    allowedInWin, \* history: calls allowed since the stored window began
    overlap,    \* history: a call of the stored window overlapped another call
    second,        \* seconds of time.Now() past the hour `now`
    auditLog,   \* DynamoDB audit rows
    recorded,   \* history: the audit events the store accepted, in order
    authOp,     \* history: the last authentication attempt and its answer
    httpOp      \* history: the last call of another handler or middleware and its answer

keyVars == <<now, accounts, apiKeys, revoked, lastOp, statusBefore>>
idemVars == <<idem, reqs, idemOp>>
rateVars == <<clock, config, limit, calls, rateOp, allowedInWin, overlap>>
auditVars == <<second, auditLog, recorded, authOp, httpOp>>

(* --------------------------- input domains ---------------------------- *)
Accounts == 1..2
KeyIDs == 1..MaxKeys
\* a raw secret is the integer drawn for it; MaxKeys+1 is a secret that was never generated
RawSecrets == 1..(MaxKeys + 1)
TTLHours == {1}          \* explicit expires_in values (hours); NoTime = not supplied
ValidPermissions ==
    {"read:accounts", "write:accounts", "read:keys", "write:keys", "manage:webhooks"}
PermissionInputs == {{"read:keys"}, {"read:accounts", "write:keys"}, {}, {"admin"}}
KeyName == "key"

(* ------------------------- key material ------------------------------- *)
\* pkg/auth HashAPIKey: bcrypt digest, a string of the form $2a$10$...
Bcrypt(raw) == [alg |-> "bcrypt", of |-> raw]
\* hex.EncodeToString(sha256.Sum256(raw)): 64 hex digits, never a bcrypt string
Sha256Hex(raw) == [alg |-> "sha256", of |-> raw]
\* the raw secret drawn for key id (GenerateAPIKey: 32 random bytes, never repeated)
RawSecretOf(id) == id
\* GenerateAPIKeyWithHash: the fresh secret and its bcrypt hash
GenerateAPIKeyWithHash(fresh) == [apiKey |-> fresh, keyHash |-> Bcrypt(fresh)]
ConstantTimeCompare(a, b) == a = b
\* fmt.Sprintf("KEYHASH#%s", h)
KeyHashIndex(h) == [prefix |-> "KEYHASH", v |-> h]

(* ------------------------- domain predicates -------------------------- *)
\* slip: the expiry instant itself still counts as valid
ApiKeyIsValid_AtExpiry(k, t) == k.Status = "active" /\ t <= k.ExpiresAt
ApiKeyIsValid(k, t) == k.Status = "active" /\ t < k.ExpiresAt
ApiKeyIsExpired(k, t) == t > k.ExpiresAt
AccountIsValid(status) == status = "active"
IsValidPermission(p) == p \in ValidPermissions

(* ------------------------ API key repository -------------------------- *)
StoredKeys == {i \in 1..Len(apiKeys) : apiKeys[i].stored}

\* DynamoDBApiKeyRepository.Create: the row written by PutItem.  The
\* created_at and last_used_at columns are left out: no operation reads them
\* back (ValidateByKey and GetByKeyHash overwrite LastUsedAt in memory).
ApiKeyRepoCreate(entity) ==
    [ID |-> entity.ID, AccountID |-> entity.AccountID, Name |-> entity.Name,
     KeyHash |-> entity.KeyHash, Permissions |-> entity.Permissions,
     Status |-> entity.Status, ExpiresAt |-> entity.ExpiresAt,
     GSI1PK |-> KeyHashIndex(entity.KeyHash), GSI2PK |-> entity.ID,
     TTL |-> entity.ExpiresAt, stored |-> TRUE]

\* Query on gsi1 with gsi1pk = KEYHASH#h: the ids of the matching rows
QueryGSI1(h) == {i \in StoredKeys : apiKeys[i].GSI1PK = KeyHashIndex(h)}
\* results[0] of a Limit-1 query: any matching row, NoID when there is none
FirstOf(S) == IF S = {} THEN {NoID} ELSE S

\* slip: GetByID returns only rows whose status is active
GetByID_ActiveOnly(id) ==
    IF \E i \in StoredKeys : apiKeys[i].GSI2PK = id /\ apiKeys[i].Status = "active"
    THEN id ELSE NoID
\* DynamoDBApiKeyRepository.GetByID: Query on gsi2 with gsi2pk = APIKEY#id
GetByID(id) == IF \E i \in StoredKeys : apiKeys[i].GSI2PK = id THEN id ELSE NoID

\* DynamoDBApiKeyRepository.ValidateByKey: the row it returns (NoID = nil)
ValidateByKey(rawKey, first) ==
    LET hashStr == Sha256Hex(rawKey) IN
    IF first = NoID THEN NoID
    ELSE IF ~ConstantTimeCompare(hashStr, apiKeys[first].KeyHash) THEN NoID
    ELSE IF ApiKeyIsExpired(apiKeys[first], now) THEN NoID
    ELSE first

\* slip: the update leaves the status column as it was
ApiKeyRepoDelete_KeepsStatus(id) == apiKeys
\* DynamoDBApiKeyRepository.Delete: "SET status = inactive" on the row
ApiKeyRepoDelete(id) == [apiKeys EXCEPT ![id].Status = "inactive"]

\* slip: revoking flips the status column
ApiKeyRepoRevoke_Toggle(id) ==
    [apiKeys EXCEPT ![id].Status = IF @ = "active" THEN "inactive" ELSE "active"]
\* DynamoDBApiKeyRepository.Revoke: the same as Delete
ApiKeyRepoRevoke(id) == ApiKeyRepoDelete(id)

(* --------------------------- use cases -------------------------------- *)
NoOutput ==
    [Valid |-> FALSE, AccountID |-> NoID, APIKeyID |-> NoID, Name |-> "",
     Permissions |-> {}, LastUsedAt |-> NoTime, ExpiresAt |-> NoTime,
     AccountStatus |-> ""]

Op(op, raw, hash, id, err, out, secret) ==
    [op |-> op, raw |-> raw, hash |-> hash, id |-> id, err |-> err,
     out |-> out, secret |-> secret]

\* no call has returned since the last clock or environment step
Idle == Op("none", NoRaw, NoHash, NoID, "", NoOutput, NoRaw)

\* slip: a key whose account has no row is refused
AccountRejects_WhenMissing(account) == ~AccountIsValid(account)
\* ValidateApiKey.Execute: "if account != nil { if !account.IsValid() { Valid = false } }"
AccountRejects(account) == account # "none" /\ ~AccountIsValid(account)

\* slip: Valid is decided by the account alone
ValidateOutput_AccountOnly(id) ==
    IF id = NoID THEN NoOutput
    ELSE LET k == apiKeys[id]
             account == accounts[k.AccountID]
         IN  [Valid |-> account = "none" \/ AccountIsValid(account),
              AccountID |-> k.AccountID, APIKeyID |-> k.ID, Name |-> k.Name,
              Permissions |-> k.Permissions, LastUsedAt |-> now,
              ExpiresAt |-> k.ExpiresAt,
              AccountStatus |-> IF account = "none" THEN "" ELSE account]
\* ValidateApiKeyOutput built by ValidateApiKey.Execute for the row `id`
ValidateOutput(id) ==
    IF id = NoID THEN NoOutput
    ELSE LET k == apiKeys[id]
             account == accounts[k.AccountID]
             keyOK == ApiKeyIsValid(k, now) /\ ~ApiKeyIsExpired(k, now)
         IN  [Valid |-> IF AccountRejects(account) THEN FALSE ELSE keyOK,
              AccountID |-> k.AccountID, APIKeyID |-> k.ID, Name |-> k.Name,
              Permissions |-> k.Permissions, LastUsedAt |-> now,
              ExpiresAt |-> k.ExpiresAt,
              AccountStatus |-> IF account = "none" THEN "" ELSE account]

\* ValidateApiKey.Execute: its result for the row `first` the gsi1 query returned
ValidateApiKeyResult(rawKey, keyHash, keyStoreErr, acctStoreErr, first) ==
    IF rawKey = NoRaw /\ keyHash = NoHash
    THEN Op("validate", rawKey, keyHash, NoID, "invalid input", NoOutput, NoRaw)
    ELSE IF keyStoreErr
    THEN Op("validate", rawKey, keyHash, NoID, "failed to validate API key", NoOutput, NoRaw)
    ELSE LET id == IF rawKey # NoRaw THEN ValidateByKey(rawKey, first) ELSE first IN
         IF id # NoID /\ acctStoreErr
         THEN Op("validate", rawKey, keyHash, id, "failed to get account", NoOutput, NoRaw)
         ELSE Op("validate", rawKey, keyHash, id, "", ValidateOutput(id), NoRaw)

\* ValidateApiKey.Execute
ValidateApiKeyExecute(rawKey, keyHash, keyStoreErr, acctStoreErr) ==
    /\ \E first \in FirstOf(QueryGSI1(IF rawKey # NoRaw THEN Sha256Hex(rawKey) ELSE keyHash)) :
           lastOp' = ValidateApiKeyResult(rawKey, keyHash, keyStoreErr, acctStoreErr, first)
    /\ statusBefore' = ""
    /\ UNCHANGED <<now, accounts, apiKeys, revoked, idemVars, rateVars, auditVars>>

\* slip: the permissions are not compared with the allow-list
IssueInputValid_NonEmptyOnly(permissions) == permissions # {}
\* IssueApiKey.validateInput
IssueInputValid(permissions) ==
    /\ permissions # {}
    /\ \A p \in permissions : IsValidPermission(p)

\* slip: a key issued without expires_in lives for an hour
IssueExpiry_DefaultHour(t, expiresIn) == IF expiresIn = NoTime THEN t + 1 ELSE t + expiresIn
\* IssueApiKey.Execute, "Calculate expiration": time.Now(), plus ExpiresIn
\* hours when the input carries one
IssueExpiry(t, expiresIn) == IF expiresIn = NoTime THEN t ELSE t + expiresIn

\* IssueApiKey.Execute
IssueApiKeyRun(accountID, permissions, expiresIn) ==
    /\ Len(apiKeys) < MaxKeys
    /\ IF ~IssueInputValid(permissions)
       THEN /\ lastOp' = Op("issue", NoRaw, NoHash, NoID, "invalid input", NoOutput, NoRaw)
            /\ UNCHANGED apiKeys
       ELSE IF accounts[accountID] = "none" \/ ~AccountIsValid(accounts[accountID])
       THEN /\ lastOp' = Op("issue", NoRaw, NoHash, NoID, "account not found or inactive", NoOutput, NoRaw)
            /\ UNCHANGED apiKeys
       ELSE LET id == Len(apiKeys) + 1
                gen == GenerateAPIKeyWithHash(id)
                expiresAt == IssueExpiry(now, expiresIn)
                entity == [ID |-> id, AccountID |-> accountID, Name |-> KeyName,
                           KeyHash |-> gen.keyHash, Permissions |-> permissions,
                           Status |-> "active", ExpiresAt |-> expiresAt]
            IN  /\ apiKeys' = Append(apiKeys, ApiKeyRepoCreate(entity))
                /\ lastOp' = Op("issue", NoRaw, gen.keyHash, id, "",
                                [NoOutput EXCEPT !.AccountID = accountID, !.APIKeyID = id,
                                                 !.Name = KeyName, !.Permissions = permissions,
                                                 !.ExpiresAt = expiresAt],
                                gen.apiKey)
    /\ statusBefore' = ""
    /\ UNCHANGED <<now, accounts, revoked>>

\* IssueApiKey.Execute called directly
IssueApiKeyExecute(accountID, permissions, expiresIn) ==
    /\ IssueApiKeyRun(accountID, permissions, expiresIn)
    /\ UNCHANGED <<idemVars, rateVars, auditVars>>

\* DynamoDBApiKeyRepository.Create called with a record whose key_hash is the
\* SHA-256 lookup digest of its secret (the layout ValidateByKey queries)
CreateLookupKey(accountID, permissions, ttl) ==
    /\ Len(apiKeys) < MaxKeys
    /\ IssueInputValid(permissions)
    /\ LET id == Len(apiKeys) + 1
           entity == [ID |-> id, AccountID |-> accountID, Name |-> KeyName,
                      KeyHash |-> Sha256Hex(id), Permissions |-> permissions,
                      Status |-> "active", ExpiresAt |-> now + ttl]
       IN  /\ apiKeys' = Append(apiKeys, ApiKeyRepoCreate(entity))
           /\ lastOp' = Op("create", NoRaw, entity.KeyHash, id, "", NoOutput, NoRaw)
    /\ statusBefore' = ""
    /\ UNCHANGED <<now, accounts, revoked, idemVars, rateVars, auditVars>>

\* RevokeApiKey.Execute
RevokeApiKeyExecute(apiKeyID, storeErr) ==
    /\ statusBefore' = IF apiKeyID \in StoredKeys THEN apiKeys[apiKeyID].Status ELSE ""
    /\ IF apiKeyID = NoID
       THEN /\ lastOp' = Op("revoke", NoRaw, NoHash, apiKeyID, "invalid input", NoOutput, NoRaw)
            /\ UNCHANGED <<apiKeys, revoked>>
       ELSE IF storeErr
       THEN /\ lastOp' = Op("revoke", NoRaw, NoHash, apiKeyID, "failed to get API key", NoOutput, NoRaw)
            /\ UNCHANGED <<apiKeys, revoked>>
       ELSE IF GetByID(apiKeyID) = NoID
       THEN /\ lastOp' = Op("revoke", NoRaw, NoHash, apiKeyID, "API key not found", NoOutput, NoRaw)
            /\ UNCHANGED <<apiKeys, revoked>>
       ELSE /\ apiKeys' = ApiKeyRepoRevoke(apiKeyID)
            /\ revoked' = revoked \cup {apiKeyID}
            /\ lastOp' = Op("revoke", NoRaw, NoHash, apiKeyID, "", NoOutput, NoRaw)
    /\ UNCHANGED <<now, accounts, idemVars, rateVars, auditVars>>

(* ---------------------------- key listing ----------------------------- *)
\* Query on pk = ACCOUNT#<accountID>, begins_with(sk, "APIKEY#"): the ids of the
\* account's rows in sort-key order
KeysOfAccount(accountID) ==
    LET Owned(i) == i \in StoredKeys /\ apiKeys[i].AccountID = accountID
    IN  SelectSeq([i \in 1..Len(apiKeys) |-> i], Owned)

\* DynamoDBApiKeyRepository.List: the query with Limit = limit; the offset is
\* accepted and not used
ApiKeyRepoList(accountID, lim, offset) ==
    LET all == KeysOfAccount(accountID)
    IN  SubSeq(all, 1, IF lim < Len(all) THEN lim ELSE Len(all))

\* DynamoDBApiKeyRepository.GetByAccountID
GetByAccountID(accountID) == KeysOfAccount(accountID)

\* GetAPIKeys.validateInput
GetAPIKeysInputValid(accountID, lim, offset) ==
    /\ accountID # NoID
    /\ ~(lim <= 0 \/ lim > 100)
    /\ ~(offset < 0)

\* GetAPIKeys.Execute
GetAPIKeysExecute(accountID, lim, offset) ==
    /\ lastOp' =
         IF ~GetAPIKeysInputValid(accountID, lim, offset)
         THEN Op("list", NoRaw, NoHash, accountID, "invalid input", NoOutput, NoRaw)
         ELSE IF accounts[accountID] = "none" \/ ~AccountIsValid(accounts[accountID])
         THEN Op("list", NoRaw, NoHash, accountID, "account not found or inactive", NoOutput, NoRaw)
         ELSE Op("list", NoRaw, NoHash, accountID, "",
                 [APIKeys |-> ApiKeyRepoList(accountID, lim, offset),
                  Limit |-> lim, Offset |-> offset,
                  Total |-> Len(GetByAccountID(accountID))],
                 NoRaw)
    /\ statusBefore' = ""
    /\ UNCHANGED <<now, accounts, apiKeys, revoked, idemVars, rateVars, auditVars>>

\* DynamoDBApiKeyRepository.Create for a key of the account
CreateKeyOf(accountID) ==
    /\ Len(apiKeys) < MaxListed
    /\ LET id == Len(apiKeys) + 1
           entity == [ID |-> id, AccountID |-> accountID, Name |-> KeyName,
                      KeyHash |-> Sha256Hex(id), Permissions |-> {"read:keys"},
                      Status |-> "active", ExpiresAt |-> now + 1]
       IN  /\ apiKeys' = Append(apiKeys, ApiKeyRepoCreate(entity))
           /\ lastOp' = Op("create", NoRaw, entity.KeyHash, id, "", NoOutput, NoRaw)
    /\ statusBefore' = ""
    /\ UNCHANGED <<now, accounts, revoked, idemVars, rateVars, auditVars>>

(* --------------------------- environment ------------------------------ *)
\* PostgreSQLAppRepository.Update / Delete: the account's status changes
SetAccountStatus(a, s) ==
    /\ accounts[a] \in {"active", "suspended"}
    /\ s \in {"active", "suspended", "deleted"} \ {accounts[a]}
    /\ accounts' = [accounts EXCEPT ![a] = s]
    /\ lastOp' = Idle
    /\ statusBefore' = ""
    /\ UNCHANGED <<now, apiKeys, revoked, idemVars, rateVars, auditVars>>

\* DynamoDB time-to-live: a row whose ttl attribute is in the past is removed
PurgeExpiredKey(id) ==
    /\ id \in StoredKeys
    /\ apiKeys[id].TTL < now
    /\ apiKeys' = [apiKeys EXCEPT ![id].stored = FALSE]
    /\ lastOp' = Idle
    /\ statusBefore' = ""
    /\ UNCHANGED <<now, accounts, revoked, idemVars, rateVars, auditVars>>

TickKeys ==
    /\ now < MaxTime
    /\ now' = now + 1
    /\ lastOp' = Idle
    /\ statusBefore' = ""
    /\ UNCHANGED <<accounts, apiKeys, revoked, idemVars, rateVars, auditVars>>

(* ======================== idempotency ledger ========================== *)
Requests == 1..MaxRequests
RecordIDs == 1..MaxRecords
\* request fingerprints: SHA-256 digests of two different normalized requests
Fingerprints == {Sha256Hex(1), Sha256Hex(2)}
NoToken == 0           \* no Idempotency-Key header
ClientToken == -1      \* a client-chosen token such as "tok-1" (not a UUID string)
HandlerResponse == "R" \* the body the protected handler answers with
OtherResponse == "R2"  \* another response payload

\* fmt.Sprintf("REQUEST#%s", requestHash)
RequestHashIndex(h) == [prefix |-> "REQUEST", v |-> h]

StoredRecords == {i \in 1..Len(idem) : idem[i].stored}

\* DynamoDBIdempotencyKeyRepository.Create: the row written by PutItem under
\* pk = IDEMPOTENCY#<id>; DynamoDBIdempotencyKey carries no gsi1pk attribute
IdemRepoCreate(key) ==
    [ID |-> key.ID, RequestHash |-> key.RequestHash, Status |-> key.Status,
     Response |-> key.Response, CreatedAt |-> now, ExpiresAt |-> now + IdempotencyTTL,
     GSI1PK |-> NoAttr, TTL |-> now + IdempotencyTTL, stored |-> TRUE]

\* DynamoDBIdempotencyKeyRepository.GetByRequestHash: Query on gsi1 with
\* gsi1pk = REQUEST#<hash>, Limit 1
GetByRequestHash(h) == {i \in StoredRecords : idem[i].GSI1PK = RequestHashIndex(h)}

\* DynamoDBIdempotencyKeyRepository.GetByID: GetItem on pk = IDEMPOTENCY#<id>
IdemGetByID(id) == IF id \in StoredRecords THEN id ELSE NoID

\* DynamoDBIdempotencyKeyRepository.Update: SET status, response
IdemRepoUpdate(id, status, response) ==
    [idem EXCEPT ![id].Status = status, ![id].Response = response]

IdempotencyKeyIsExpired(k, t) == t > k.ExpiresAt

\* CheckIdempotency.Execute: its output for the row `first` GetByRequestHash returned
CheckIdempotencyExecute(token, hash, storeErr, first) ==
    IF token = NoToken \/ hash = NoHash
    THEN [err |-> "invalid input", Exists |-> FALSE, Status |-> "", Response |-> ""]
    ELSE IF storeErr
    THEN [err |-> "failed to check idempotency key", Exists |-> FALSE, Status |-> "", Response |-> ""]
    ELSE IF first = NoID
    THEN [err |-> "", Exists |-> FALSE, Status |-> "", Response |-> ""]
    ELSE IF IdempotencyKeyIsExpired(idem[first], now)
    THEN [err |-> "", Exists |-> TRUE, Status |-> "expired", Response |-> ""]
    ELSE IF idem[first].Status = "completed"
    THEN [err |-> "", Exists |-> TRUE, Status |-> "completed", Response |-> idem[first].Response]
    ELSE [err |-> "", Exists |-> TRUE, Status |-> idem[first].Status, Response |-> ""]

\* slip: the status of the record is not looked at
CompleteIdempotencyError_NoStatusCheck(key, response, storeErr) ==
    IF key = NoToken \/ response = "" THEN "invalid input"
    ELSE IF key < 0 THEN "invalid idempotency key format"
    ELSE IF storeErr THEN "failed to get idempotency key"
    ELSE IF IdemGetByID(key) = NoID THEN "idempotency key not found"
    ELSE ""
\* CompleteIdempotency.Execute: the error it returns ("" = success)
CompleteIdempotencyError(key, response, storeErr) ==
    IF key = NoToken \/ response = "" THEN "invalid input"
    ELSE IF key < 0 THEN "invalid idempotency key format"
    ELSE IF storeErr THEN "failed to get idempotency key"
    ELSE IF IdemGetByID(key) = NoID THEN "idempotency key not found"
    ELSE IF idem[key].Status # "pending" THEN "idempotency key is not in pending status"
    ELSE ""

\* no CompleteIdempotency.Execute call has returned since the last other step
IdemIdle == [op |-> "none", key |-> NoToken, response |-> "", err |-> "",
             before |-> [Status |-> "", Response |-> ""]]

\* slip: the ledger is consulted for every request
SkipsIdempotency_Never(token) == FALSE
\* extractIdempotencyKey(c) == "": the request carries no idempotency header
\* and the middleware returns c.Next() at once
SkipsIdempotency(token) == token = NoToken

\* a request before it arrives; ledger: a use case of the ledger was executed
\* for it
NewReq ==
    [pc |-> "idle", token |-> NoToken, hash |-> NoHash, outcome |-> "", code |-> 0,
     body |-> "", completedSeen |-> {}, status |-> "", seen |-> {}, ledger |-> FALSE]

\* a request arrives at a route whose chain is Check, Create, Complete, handler
\* (each of the three middlewares ends in c.Next())
Arrive(r, token, hash) ==
    /\ reqs[r].pc = "idle"
    /\ \A q \in Requests : q < r => reqs[q].pc # "idle"
    /\ reqs' = [reqs EXCEPT ![r].pc = "check", ![r].token = token, ![r].hash = hash]
    /\ idemOp' = IdemIdle
    /\ UNCHANGED <<keyVars, idem, rateVars, auditVars>>

\* the responses of the unexpired completed rows stored for a fingerprint
CompletedFor(h) ==
    {idem[i].Response : i \in {j \in StoredRecords :
        /\ idem[j].RequestHash = h
        /\ idem[j].Status = "completed"
        /\ ~IdempotencyKeyIsExpired(idem[j], now)}}

\* the rows stored for a fingerprint: status, response and whether expired
StoredFor(h) ==
    {[Status |-> idem[i].Status, Response |-> idem[i].Response,
      expired |-> IdempotencyKeyIsExpired(idem[i], now)] :
        i \in {j \in StoredRecords : idem[j].RequestHash = h}}

\* what Check reported: the status of the record found, or "absent"
CheckStatus(output) == IF output.Exists THEN output.Status ELSE "absent"

\* IdempotencyMiddleware.Check
MwCheck(r, storeErr) ==
    /\ reqs[r].pc = "check"
    /\ IF SkipsIdempotency(reqs[r].token)
       THEN reqs' = [reqs EXCEPT ![r].pc = "create"]
       ELSE \E first \in FirstOf(GetByRequestHash(reqs[r].hash)) :
            LET output == CheckIdempotencyExecute(reqs[r].token, reqs[r].hash, storeErr, first)
                seen == CompletedFor(reqs[r].hash)
                rows == StoredFor(reqs[r].hash)
            IN  IF output.err # ""
                THEN reqs' = [reqs EXCEPT ![r].pc = "answered", ![r].outcome = "error",
                                          ![r].code = 500, ![r].completedSeen = seen,
                                          ![r].seen = rows, ![r].ledger = TRUE]
                ELSE IF output.Exists /\ output.Status = "completed"
                THEN reqs' = [reqs EXCEPT ![r].pc = "answered", ![r].outcome = "cached",
                                          ![r].code = 200, ![r].body = output.Response,
                                          ![r].completedSeen = seen, ![r].seen = rows, ![r].ledger = TRUE,
                                          ![r].status = CheckStatus(output)]
                ELSE IF output.Exists /\ output.Status # "expired"
                THEN reqs' = [reqs EXCEPT ![r].pc = "answered", ![r].outcome = "conflict",
                                          ![r].code = 409, ![r].completedSeen = seen,
                                          ![r].seen = rows, ![r].ledger = TRUE, ![r].status = CheckStatus(output)]
                ELSE reqs' = [reqs EXCEPT ![r].pc = "create", ![r].completedSeen = seen,
                                          ![r].seen = rows, ![r].ledger = TRUE, ![r].status = CheckStatus(output)]
    /\ idemOp' = IdemIdle
    /\ UNCHANGED <<keyVars, idem, rateVars, auditVars>>

\* IdempotencyMiddleware.Create, calling CreateIdempotency.Execute
MwCreate(r, storeErr) ==
    /\ reqs[r].pc = "create"
    /\ IF SkipsIdempotency(reqs[r].token)
       THEN /\ reqs' = [reqs EXCEPT ![r].pc = "complete", ![r].outcome = "next"]
            /\ UNCHANGED idem
       ELSE IF reqs[r].hash = NoHash \/ storeErr
       THEN /\ reqs' = [reqs EXCEPT ![r].pc = "answered", ![r].outcome = "error", ![r].code = 500,
                                     ![r].ledger = TRUE]
            /\ UNCHANGED idem
       ELSE /\ Len(idem) < MaxRecords
            /\ LET key == [ID |-> Len(idem) + 1, RequestHash |-> reqs[r].hash,
                           Status |-> "pending", Response |-> ""]
               IN  idem' = Append(idem, IdemRepoCreate(key))
            /\ reqs' = [reqs EXCEPT ![r].pc = "complete", ![r].outcome = "next",
                                     ![r].ledger = TRUE]
    /\ idemOp' = IdemIdle
    /\ UNCHANGED <<keyVars, rateVars, auditVars>>

\* IdempotencyMiddleware.Complete: CompleteIdempotency.Execute with the header
\* value as IdempotencyKey and Response ""
MwComplete(r, storeErr) ==
    /\ reqs[r].pc = "complete"
    /\ IF SkipsIdempotency(reqs[r].token)
       THEN /\ reqs' = [reqs EXCEPT ![r].pc = "handler"]
            /\ UNCHANGED idem
       ELSE LET err == CompleteIdempotencyError(reqs[r].token, "", storeErr) IN
            IF err # ""
            THEN /\ reqs' = [reqs EXCEPT ![r].pc = "answered", ![r].code = 500]
                 /\ UNCHANGED idem
            ELSE /\ idem' = IdemRepoUpdate(reqs[r].token, "completed", "")
                 /\ reqs' = [reqs EXCEPT ![r].pc = "handler"]
    /\ idemOp' = IdemIdle
    /\ UNCHANGED <<keyVars, rateVars, auditVars>>

\* the protected handler runs and answers
Handler(r) ==
    /\ reqs[r].pc = "handler"
    /\ reqs' = [reqs EXCEPT ![r].pc = "answered", ![r].code = 200, ![r].body = HandlerResponse]
    /\ idemOp' = IdemIdle
    /\ UNCHANGED <<keyVars, idem, rateVars, auditVars>>

\* CreateIdempotency.Execute called directly
CreateIdempotencyExecute(token, hash, storeErr) ==
    /\ Len(idem) < MaxRecords
    /\ IF token = NoToken \/ hash = NoHash \/ storeErr
       THEN UNCHANGED idem
       ELSE LET key == [ID |-> Len(idem) + 1, RequestHash |-> hash,
                       Status |-> "pending", Response |-> ""]
            IN  idem' = Append(idem, IdemRepoCreate(key))
    /\ idemOp' = IdemIdle
    /\ UNCHANGED <<keyVars, reqs, rateVars, auditVars>>

\* CompleteIdempotency.Execute called with a record id and a response
CompleteIdempotencyExecute(key, response, storeErr) ==
    /\ IF CompleteIdempotencyError(key, response, storeErr) = ""
       THEN idem' = IdemRepoUpdate(key, "completed", response)
       ELSE UNCHANGED idem
    /\ idemOp' = [op |-> "complete", key |-> key, response |-> response,
                  err |-> CompleteIdempotencyError(key, response, storeErr),
                  before |-> IF key \in StoredRecords
                             THEN [Status |-> idem[key].Status, Response |-> idem[key].Response]
                             ELSE IdemIdle.before]
    /\ UNCHANGED <<keyVars, reqs, rateVars, auditVars>>

\* CompleteIdempotency.Execute of caller r up to the status test: input
\* validation, GetByID and the test on the status read; the caller keeps the
\* key and the response for its Update
CompleteIdempotencyRead(r, key, response, storeErr) ==
    /\ reqs[r].pc = "idle"
    /\ LET err == CompleteIdempotencyError(key, response, storeErr) IN
       IF err # ""
       THEN reqs' = [reqs EXCEPT ![r].pc = "answered", ![r].token = key, ![r].body = response,
                                 ![r].outcome = "error", ![r].ledger = TRUE]
       ELSE reqs' = [reqs EXCEPT ![r].pc = "update", ![r].token = key, ![r].body = response,
                                 ![r].status = idem[key].Status, ![r].ledger = TRUE]
    /\ idemOp' = IdemIdle
    /\ UNCHANGED <<keyVars, idem, rateVars, auditVars>>

\* the rest of CompleteIdempotency.Execute of caller r: Update, an UpdateItem
\* "SET status, response" without a condition, and the output
CompleteIdempotencyUpdate(r, storeErr) ==
    /\ reqs[r].pc = "update"
    /\ IF storeErr
       THEN /\ reqs' = [reqs EXCEPT ![r].pc = "answered", ![r].outcome = "error"]
            /\ UNCHANGED idem
       ELSE /\ idem' = IdemRepoUpdate(reqs[r].token, "completed", reqs[r].body)
            /\ reqs' = [reqs EXCEPT ![r].pc = "answered", ![r].outcome = "completed"]
    /\ idemOp' = IdemIdle
    /\ UNCHANGED <<keyVars, rateVars, auditVars>>

\* DynamoDB time-to-live on the idempotency rows
PurgeExpiredRecord(id) ==
    /\ id \in StoredRecords
    /\ idem[id].TTL < now
    /\ idem' = [idem EXCEPT ![id].stored = FALSE]
    /\ idemOp' = IdemIdle
    /\ UNCHANGED <<keyVars, reqs, rateVars, auditVars>>

\* the clock advances by half a retention period
TickIdem ==
    /\ now < MaxIdemTicks * (IdempotencyTTL \div 2)
    /\ now' = now + (IdempotencyTTL \div 2)
    /\ idemOp' = IdemIdle
    /\ UNCHANGED <<accounts, apiKeys, revoked, lastOp, statusBefore, idem, reqs, rateVars, auditVars>>

(* ============================ rate limiter ============================ *)
Windows == {1, 2}               \* configured window lengths, in seconds
RateConfigs == [Requests : 1..MaxCeiling, Window : Windows]
RateKey == "ip:10.0.0.1"        \* fmt.Sprintf("%s:%s", name, key)

\* time.Time.Unix(): the whole seconds of an instant given in half seconds
Unix(t) == t \div 2
\* time.Time.Add(window) for a window of whole seconds
TimeAdd(t, seconds) == t + 2 * seconds

\* the zero DynamoDBRateLimit that GetItem leaves when the key has no item
NoEntry == [Key |-> "", Count |-> 0, Window |-> 0, ExpiresAt |-> 0, TTL |-> 0]

\* slip: a new counter starts at 0
RateNewEntry_FromZero(key, window, resetTime) ==
    [Key |-> key, Count |-> 0, Window |-> window, ExpiresAt |-> resetTime, TTL |-> resetTime]
\* the entry CheckRateLimit puts when it creates or resets a counter
RateNewEntry(key, window, resetTime) ==
    [Key |-> key, Count |-> 1, Window |-> window, ExpiresAt |-> resetTime, TTL |-> resetTime]

\* slip: the ceiling test lets one more call through
RateExceeded_OffByOne(count, requests) == count > requests
\* result.Count >= int64(requests)
RateExceeded(count, requests) == count >= requests

\* slip: a counter at its ceiling is refused before its expiry is looked at
WindowElapsed_UnlessExhausted(result, t, requests) ==
    result.ExpiresAt < Unix(t) /\ result.Count < requests
\* result.ExpiresAt < now.Unix()
WindowElapsed(result, t, requests) == result.ExpiresAt < Unix(t)

\* CheckRateLimit after GetItem: the branch taken for the item read, the entry
\* it puts (NoEntry: no PutItem) and the values it returns
RateDecision(key, result, t, requests, window) ==
    LET resetTime == Unix(TimeAdd(t, window)) IN
    IF result.Key = ""
    THEN [branch |-> "create", allowed |-> TRUE, remaining |-> requests - 1,
          resetTime |-> resetTime, put |-> RateNewEntry(key, window, resetTime)]
    ELSE IF WindowElapsed(result, t, requests)
    THEN [branch |-> "reset", allowed |-> TRUE, remaining |-> requests - 1,
          resetTime |-> resetTime, put |-> RateNewEntry(key, result.Window, resetTime)]
    ELSE IF RateExceeded(result.Count, requests)
    THEN [branch |-> "deny", allowed |-> FALSE,
          remaining |-> IF result.Count > requests THEN result.Count - requests ELSE 0,
          resetTime |-> resetTime, put |-> NoEntry]
    ELSE [branch |-> "incr", allowed |-> TRUE,
          remaining |-> IF requests - (result.Count + 1) < 0 THEN 0
                        ELSE requests - (result.Count + 1),
          resetTime |-> resetTime,
          put |-> [Key |-> result.Key, Count |-> result.Count + 1, Window |-> result.Window,
                   ExpiresAt |-> result.ExpiresAt, TTL |-> result.ExpiresAt]]

\* a time.Duration of whole seconds, in the half seconds of the clock
DurationOf(seconds) == 2 * seconds
\* int(d.Seconds()): the whole seconds of a duration
Seconds(d) == d \div 2

\* slip: the hint is the reset time, an instant, not the window
RetryAfter_ResetTime(window, at, resetTime) == resetTime
\* "retry_after" of the 429 body: int(config.Window.Seconds())
RetryAfter(window, at, resetTime) == Seconds(DurationOf(window))
NoRetryAfter == -1

\* what a createHandler call did: the branch of CheckRateLimit, the item it
\* read and put, the values returned, the HTTP status (0: c.Next()) and the
\* retry_after of the body of a 429
RateOp(op, branch, at, read, put, allowed, remaining, resetTime, err, before, code) ==
    [op |-> op, branch |-> branch, at |-> at, read |-> read, put |-> put,
     allowed |-> allowed, remaining |-> remaining, resetTime |-> resetTime,
     err |-> err, before |-> before, code |-> code,
     retryAfter |-> IF code = 429 THEN RetryAfter(config.Window, at, resetTime)
                    ELSE NoRetryAfter]
RateIdle == RateOp("none", "", 0, NoEntry, NoEntry, FALSE, 0, 0, "", 0, 0)

\* the error CheckRateLimit wraps when its PutItem fails
RatePutError(branch) ==
    IF branch = "create" THEN "failed to create rate limit entry"
    ELSE IF branch = "reset" THEN "failed to reset rate limit entry"
    ELSE "failed to update rate limit entry"

\* a call in progress has seen another call begin
MarkOverlapped(call) == [call EXCEPT !.ov = TRUE]

\* RateLimitMiddleware.createHandler up to the GetItem of CheckRateLimit: the
\* call keeps its time.Now() and the item it read
RateLimitGet(key, getErr) ==
    /\ BagCardinality(calls) < MaxCallers
    /\ IF key = ""
       THEN /\ rateOp' = RateOp("skip", "", clock, NoEntry, NoEntry, FALSE, 0, 0, "", 0, 0)
            /\ UNCHANGED <<calls, overlap>>
       ELSE IF getErr
       THEN /\ rateOp' = RateOp("check", "", clock, NoEntry, NoEntry, FALSE, config.Requests,
                                Unix(TimeAdd(clock, config.Window)),
                                "failed to get rate limit", allowedInWin, 500)
            /\ UNCHANGED <<calls, overlap>>
       ELSE /\ calls' = BagOfAll(MarkOverlapped, calls) (+)
                          SetToBag({[t |-> clock, result |-> limit, ov |-> calls # EmptyBag]})
            /\ overlap' = (overlap \/ calls # EmptyBag)
            /\ rateOp' = RateIdle
    /\ UNCHANGED <<keyVars, idemVars, auditVars, clock, config, limit, allowedInWin>>

\* CheckRateLimit from the branch on the item read to its return, and the
\* rest of createHandler
RateLimitPut(putErr) ==
    \E call \in BagToSet(calls) :
        /\ LET d == RateDecision(RateKey, call.result, call.t, config.Requests, config.Window) IN
           IF d.put = NoEntry
           THEN /\ rateOp' = RateOp("check", d.branch, call.t, call.result, NoEntry,
                                    FALSE, d.remaining, d.resetTime, "", allowedInWin, 429)
                /\ UNCHANGED <<limit, allowedInWin, overlap>>
           ELSE IF putErr
           THEN /\ rateOp' = RateOp("check", d.branch, call.t, call.result, NoEntry,
                                    FALSE, config.Requests, d.resetTime,
                                    RatePutError(d.branch), allowedInWin, 500)
                /\ UNCHANGED <<limit, allowedInWin, overlap>>
           ELSE /\ limit' = d.put
                /\ rateOp' = RateOp("check", d.branch, call.t, call.result, d.put,
                                    TRUE, d.remaining, d.resetTime, "", allowedInWin, 0)
                /\ allowedInWin' = IF d.branch = "incr" THEN allowedInWin + 1 ELSE 1
                /\ overlap' = IF d.branch = "incr" THEN overlap
                               ELSE (BagCardinality(calls) > 1 \/ call.ov)
        /\ calls' = calls (-) SetToBag({call})
        /\ UNCHANGED <<keyVars, idemVars, auditVars, clock, config>>

\* DynamoDB time-to-live on the counter item
PurgeExpiredLimit ==
    /\ limit.Key # ""
    /\ limit.TTL < Unix(clock)
    /\ limit' = NoEntry
    /\ rateOp' = RateIdle
    /\ UNCHANGED <<keyVars, idemVars, auditVars, clock, config, calls, allowedInWin, overlap>>

\* half a second passes
TickRate ==
    /\ clock < MaxClock
    /\ clock' = clock + 1
    /\ rateOp' = RateIdle
    /\ UNCHANGED <<keyVars, idemVars, auditVars, config, limit, calls, allowedInWin, overlap>>

(* =========================== audit recorder =========================== *)
\* the instant time.Now() returns, in seconds
AuditTime == now * 3600 + second
\* timestamp.Format("2006-01-02")
DateOf(t) == t \div 86400

\* DynamoDBAuditLogger.createPartitionKey
createPartitionKey(eventType, t) ==
    CASE eventType = "authentication" -> [prefix |-> "AUDIT#AUTH", date |-> DateOf(t)]
      [] eventType \in {"api_key_created", "api_key_revoked"} ->
             [prefix |-> "AUDIT#APIKEY", date |-> DateOf(t)]
      [] eventType = "account_created" -> [prefix |-> "AUDIT#ACCOUNT", date |-> DateOf(t)]
      [] OTHER -> [prefix |-> eventType, date |-> DateOf(t)]

\* DynamoDBAuditLogger.createSortKey: the date and timestamp.Unix(), whole seconds
createSortKey(t) == [date |-> DateOf(t), unix |-> t]

\* the DynamoDBAuditEvent LogAuthentication builds; Timestamp is time.Now() at
\* full resolution: the second and the order of the call within the run
AuthenticationEvent(accountID, apiKeyID, success, reason) ==
    [Timestamp |-> [unix |-> AuditTime, order |-> Len(recorded) + 1],
     EventType |-> "authentication", AccountID |-> accountID, APIKeyID |-> apiKeyID,
     Success |-> success, Details |-> reason,
     PK |-> createPartitionKey("authentication", AuditTime),
     SK |-> createSortKey(AuditTime),
     TTL |-> AuditTime + AuditTTL]

\* DynamoDBAuditLogger.storeAuditEvent: PutItem replaces the item with the same pk and sk
storeAuditEvent(rows, event) ==
    {x \in rows : ~(x.PK = event.PK /\ x.SK = event.SK)} \cup {event}

\* DynamoDBAuditLogger.LogAuthentication: a failed write is logged and dropped
LogAuthentication(event, storeErr) ==
    IF storeErr
    THEN UNCHANGED <<auditLog, recorded>>
    ELSE /\ auditLog' = storeAuditEvent(auditLog, event)
         /\ recorded' = Append(recorded, event)

(* ===================== authentication entry points ==================== *)
AuthOp(entry, raw, res, keyErr, touchErr, acctErr, auditFail, code, next, forwarded) ==
    [entry |-> entry, raw |-> raw, res |-> res, keyErr |-> keyErr, touchErr |-> touchErr,
     acctErr |-> acctErr, auditFail |-> auditFail, code |-> code, next |-> next,
     forwarded |-> forwarded]

\* no request has been authenticated yet
AuthIdle == AuthOp("none", NoRaw, Idle, FALSE, FALSE, FALSE, FALSE, 0, FALSE, FALSE)

\* slip: the error of ValidateApiKey.Execute is not examined
RequireAuthDecision_IgnoresError(rawKey, res) ==
    IF rawKey = NoRaw
    THEN [code |-> 401, next |-> FALSE, reason |-> "missing_api_key"]
    ELSE IF ~res.out.Valid \/ res.out.AccountID = NoID
    THEN [code |-> 401, next |-> FALSE, reason |-> "invalid_or_expired_key"]
    ELSE [code |-> 0, next |-> TRUE, reason |-> ""]
\* AuthMiddleware.RequireAuth: the status it answers with (0 = none, the
\* request goes on to c.Next()) and the reason it logs
RequireAuthDecision(rawKey, res) ==
    IF rawKey = NoRaw
    THEN [code |-> 401, next |-> FALSE, reason |-> "missing_api_key"]
    ELSE IF res.err # ""
    THEN [code |-> 500, next |-> FALSE, reason |-> "validation_error"]
    ELSE IF ~res.out.Valid \/ res.out.AccountID = NoID
    THEN [code |-> 401, next |-> FALSE, reason |-> "invalid_or_expired_key"]
    ELSE [code |-> 0, next |-> TRUE, reason |-> ""]

\* slip: a failed audit write turns the answer into a server error
AfterLogAuthentication_FailsRequest(decision, storeErr) ==
    IF storeErr THEN [decision EXCEPT !.code = 500, !.next = FALSE] ELSE decision
\* AuthMiddleware.RequireAuth after LogAuthentication returned: the call has
\* no result, the answer is the one decided before it
AfterLogAuthentication(decision, storeErr) == decision

\* AuthMiddleware.RequireAuth.  keyStoreErr: the gsi1 query fails; touchErr:
\* the last_used_at update of ValidateByKey fails; acctStoreErr: the account
\* query fails; auditFail: the audit store refuses the write
RequireAuth(rawKey, keyStoreErr, touchErr, acctStoreErr, auditFail) ==
    /\ Len(recorded) < MaxEvents
    /\ \E first \in FirstOf(QueryGSI1(Sha256Hex(rawKey))) :
        LET res == IF rawKey = NoRaw THEN Idle
                   ELSE ValidateApiKeyResult(rawKey, NoHash, keyStoreErr, acctStoreErr, first)
            found == rawKey # NoRaw /\ ~keyStoreErr /\ ValidateByKey(rawKey, first) # NoID
            decision == RequireAuthDecision(rawKey, res)
            answer == AfterLogAuthentication(decision, auditFail)
            event == IF decision.next
                     THEN AuthenticationEvent(res.out.AccountID, res.out.APIKeyID, TRUE, "")
                     ELSE AuthenticationEvent(NoID, NoID, FALSE, decision.reason)
        IN  /\ LogAuthentication(event, auditFail)
            /\ lastOp' = res
            /\ authOp' = AuthOp("RequireAuth", rawKey, res,
                                rawKey # NoRaw /\ keyStoreErr,
                                found /\ touchErr,
                                found /\ acctStoreErr,
                                auditFail, answer.code, answer.next, TRUE)
    /\ statusBefore' = ""
    /\ UNCHANGED <<now, accounts, apiKeys, revoked, second, httpOp, idemVars, rateVars>>

\* SharedAuthMiddleware.RequireAuth: ValidateByKey alone decides, nothing is logged
SharedRequireAuth(rawKey, keyStoreErr, touchErr) ==
    /\ \E first \in FirstOf(QueryGSI1(Sha256Hex(rawKey))) :
        LET id == IF rawKey = NoRaw \/ keyStoreErr THEN NoID ELSE ValidateByKey(rawKey, first)
            code == IF rawKey = NoRaw THEN 401
                    ELSE IF keyStoreErr THEN 500
                    ELSE IF id = NoID THEN 401
                    ELSE 0
            res == Op("validateByKey", rawKey, NoHash, id,
                      IF rawKey # NoRaw /\ keyStoreErr THEN "failed to query API key by hash" ELSE "",
                      NoOutput, NoRaw)
        IN  authOp' = AuthOp("SharedRequireAuth", rawKey, res,
                             rawKey # NoRaw /\ keyStoreErr, id # NoID /\ touchErr, FALSE,
                             FALSE, code, code = 0, FALSE)
    /\ lastOp' = Idle
    /\ statusBefore' = ""
    /\ UNCHANGED <<now, accounts, apiKeys, revoked, second, auditLog, recorded, httpOp, idemVars, rateVars>>

\* AuthHandler.ValidateApiKey (POST /validate): the use case with the posted
\* key_hash; 400 for a body without key_hash, 500 for an error, else 200
HandlerValidateApiKey(keyHash, keyStoreErr, acctStoreErr) ==
    /\ \E first \in FirstOf(QueryGSI1(keyHash)) :
        LET res == IF keyHash = NoHash THEN Idle
                   ELSE ValidateApiKeyResult(NoRaw, keyHash, keyStoreErr, acctStoreErr, first)
            code == IF keyHash = NoHash THEN 400 ELSE IF res.err # "" THEN 500 ELSE 200
        IN  /\ lastOp' = res
            /\ authOp' = AuthOp("ValidateApiKey", NoRaw, res,
                                keyHash # NoHash /\ keyStoreErr, FALSE,
                                keyHash # NoHash /\ ~keyStoreErr /\ first # NoID /\ acctStoreErr,
                                FALSE, code, FALSE, FALSE)
    /\ statusBefore' = ""
    /\ UNCHANGED <<now, accounts, apiKeys, revoked, second, auditLog, recorded, httpOp, idemVars, rateVars>>

\* a second passes
TickSecond ==
    /\ second < MaxSecond
    /\ second' = second + 1
    /\ UNCHANGED <<keyVars, auditLog, recorded, authOp, httpOp, idemVars, rateVars>>

(* ========================= key issuance route ========================= *)
\* IssueApiKeyRequest.Validate; the name of the request is KeyName
IssueRequestError(accountID, permissions, expiresIn) ==
    IF accountID = NoID THEN "account_id is required"
    ELSE IF permissions = {} THEN "at least one permission is required"
    ELSE IF expiresIn # NoTime /\ expiresIn < 1 THEN "expires_in must be at least 1 hour"
    ELSE IF expiresIn # NoTime /\ expiresIn > 8760 THEN "expires_in must be at most 8760 hours (1 year)"
    ELSE ""

\* the DynamoDBAuditEvent LogAPIKeyCreation builds; Success is always true
APIKeyCreationEvent(accountID, apiKeyID, details) ==
    [Timestamp |-> [unix |-> AuditTime, order |-> Len(recorded) + 1],
     EventType |-> "api_key_created", AccountID |-> accountID, APIKeyID |-> apiKeyID,
     Success |-> TRUE, Details |-> details,
     PK |-> createPartitionKey("api_key_created", AuditTime),
     SK |-> createSortKey(AuditTime),
     TTL |-> AuditTime + AuditTTL]

\* DynamoDBAuditLogger.LogAPIKeyCreation: a failed write is logged and dropped
LogAPIKeyCreation(event, storeErr) ==
    IF storeErr
    THEN UNCHANGED <<auditLog, recorded>>
    ELSE /\ auditLog' = storeAuditEvent(auditLog, event)
         /\ recorded' = Append(recorded, event)

\* dto.IssueApiKeyResponse as the handler fills it from the output of the use
\* case: the APIKey field is left at its zero value
IssueApiKeyResponse(res) ==
    [APIKeyID |-> res.out.APIKeyID, APIKey |-> NoRaw, KeyHash |-> res.hash,
     AccountID |-> res.out.AccountID, Name |-> res.out.Name,
     Permissions |-> res.out.Permissions, ExpiresAt |-> res.out.ExpiresAt]
NoResponse ==
    [APIKeyID |-> NoID, APIKey |-> NoRaw, KeyHash |-> NoHash, AccountID |-> NoID,
     Name |-> "", Permissions |-> {}, ExpiresAt |-> NoTime]

\* AuthHandler.IssueApiKey: request validation, the use case, the audit event
\* and the response
HandlerIssueApiKey(accountID, permissions, expiresIn, auditFail) ==
    LET reqErr == IssueRequestError(accountID, permissions, expiresIn) IN
    /\ Len(recorded) < MaxEvents
    /\ IF reqErr # ""
       THEN /\ httpOp' = [op |-> "IssueApiKey", code |-> 400, err |-> reqErr,
                          body |-> NoResponse, secret |-> NoRaw]
            /\ UNCHANGED <<keyVars, auditLog, recorded>>
       ELSE /\ IssueApiKeyRun(accountID, permissions, expiresIn)
            /\ IF lastOp'.err # ""
               THEN /\ LogAPIKeyCreation(APIKeyCreationEvent(accountID, NoID, lastOp'.err),
                                         auditFail)
                    /\ httpOp' = [op |-> "IssueApiKey",
                                  code |-> IF lastOp'.err = "account not found or inactive"
                                           THEN 404 ELSE 500,
                                  err |-> lastOp'.err, body |-> NoResponse, secret |-> NoRaw]
               ELSE /\ LogAPIKeyCreation(APIKeyCreationEvent(lastOp'.out.AccountID,
                                                            lastOp'.out.APIKeyID, "success"),
                                         auditFail)
                    /\ httpOp' = [op |-> "IssueApiKey", code |-> 201, err |-> "",
                                  body |-> IssueApiKeyResponse(lastOp'),
                                  secret |-> lastOp'.secret]
    /\ UNCHANGED <<second, authOp, idemVars, rateVars>>

(* ========================= permission checks ========================== *)
\* no such call has been made
HttpIdle == [op |-> "none"]

\* c.Locals("permissions") of a request: set by RequireAuth when it passes
\* the request on, nil otherwise
NoLocals == [set |-> FALSE, permissions |-> {}]
LocalsAfterRequireAuth ==
    IF authOp.entry = "RequireAuth" /\ authOp.next
    THEN [set |-> TRUE, permissions |-> authOp.res.out.Permissions]
    ELSE NoLocals

\* slip: any authenticated request is passed on
RequirePermissionDecision_AnyAuthenticated(locals, permission) ==
    IF ~locals.set THEN [code |-> 401, next |-> FALSE]
    ELSE [code |-> 0, next |-> TRUE]
\* AuthMiddleware.RequirePermission: the status it answers with (0 = none, the
\* request goes on to c.Next()); the permissions RequireAuth stores are a []string
RequirePermissionDecision(locals, permission) ==
    IF ~locals.set THEN [code |-> 401, next |-> FALSE]
    ELSE IF permission \in locals.permissions THEN [code |-> 0, next |-> TRUE]
    ELSE [code |-> 403, next |-> FALSE]

\* AuthMiddleware.RequirePermission(permission) on a route; behindAuth: the
\* route mounts RequireAuth before it and the request is the one RequireAuth
\* has just handled
RequirePermission(permission, behindAuth) ==
    /\ behindAuth => (authOp.entry = "RequireAuth" /\ authOp.next)
    /\ LET locals == IF behindAuth THEN LocalsAfterRequireAuth ELSE NoLocals
           decision == RequirePermissionDecision(locals, permission)
       IN  httpOp' = [op |-> "RequirePermission", permission |-> permission,
                      locals |-> locals, code |-> decision.code, next |-> decision.next]
    /\ UNCHANGED <<keyVars, second, auditLog, recorded, authOp, idemVars, rateVars>>

(* ========================= audit log queries ========================== *)
NoDate == -1
\* the event types a caller may ask for: none (""), the event type the logger
\* records ("authentication"), and the category and date of a stored
\* partition key ("AUTH#<date 0>")
QueryEventTypes == {"", "authentication", "AUTH#0"}

\* fmt.Sprintf("AUDIT#%s", eventType) as a partition key of the table
AuditQueryPK(eventType) ==
    IF eventType = "AUTH#0" THEN [prefix |-> "AUDIT#AUTH", date |-> 0]
    ELSE [prefix |-> eventType, date |-> NoDate]

\* slip: a query with neither filter reads every partition
QueryKeyCondition_ReadsAll(eventType, accountID, startTime) ==
    IF eventType # "" /\ accountID # NoID
    THEN [ok |-> TRUE, pk |-> {AuditQueryPK(eventType)}, skDate |-> {DateOf(startTime)}]
    ELSE IF eventType # ""
    THEN [ok |-> TRUE, pk |-> {AuditQueryPK(eventType)}, skDate |-> 0..DateOf(MaxTime * 3600 + MaxSecond)]
    ELSE [ok |-> TRUE, pk |-> {x.PK : x \in auditLog}, skDate |-> 0..DateOf(MaxTime * 3600 + MaxSecond)]
\* QueryAuditLogs, the key condition it builds: the partition keys and the
\* dates of the sort keys it selects; "ACCOUNT#<id>" is the partition key of no
\* audit row
QueryKeyCondition(eventType, accountID, startTime) ==
    LET anyDate == 0..DateOf(MaxTime * 3600 + MaxSecond)
    IN  IF eventType # "" /\ accountID # NoID
        THEN [ok |-> TRUE, pk |-> {AuditQueryPK(eventType)}, skDate |-> {DateOf(startTime)}]
        ELSE IF eventType # ""
        THEN [ok |-> TRUE, pk |-> {AuditQueryPK(eventType)}, skDate |-> anyDate]
        ELSE IF accountID # NoID
        THEN [ok |-> TRUE, pk |-> {}, skDate |-> anyDate]
        ELSE [ok |-> FALSE, pk |-> {}, skDate |-> {}]

\* DynamoDBAuditLogger.QueryAuditLogs: the first lim rows under the key
\* condition in sort key order, then the time filter; reads counts the calls
\* of QueryItems
QueryAuditLogs(eventType, accountID, startTime, endTime, lim, storeErr) ==
    LET cond == QueryKeyCondition(eventType, accountID, startTime)
        matched == {x \in auditLog : x.PK \in cond.pk /\ x.SK.date \in cond.skDate}
        page == {x \in matched :
                     Cardinality({y \in matched : y.SK.unix < x.SK.unix}) < lim}
        filtered == IF startTime # NoTime /\ endTime # NoTime
                    THEN {x \in page : startTime <= x.Timestamp.unix
                                       /\ x.Timestamp.unix <= endTime}
                    ELSE page
    IN  /\ httpOp' = [op |-> "QueryAuditLogs", eventType |-> eventType,
                      accountID |-> accountID,
                      reads |-> IF cond.ok THEN 1 ELSE 0,
                      err |-> IF ~cond.ok
                              THEN "at least one of eventType or accountID must be provided"
                              ELSE IF storeErr THEN "failed to query audit logs"
                              ELSE "",
                      events |-> IF cond.ok /\ ~storeErr THEN filtered ELSE {}]
        /\ UNCHANGED <<keyVars, second, auditLog, recorded, authOp, idemVars, rateVars>>

\* a request reaches a handler that another ByIP / ByAPIKey / ByEndpoint call
\* built with another configuration: createHandler names the counter by the
\* kind of limiter and the key, so both handlers use the same counter
UseLimiter(cfg) ==
    /\ cfg # config
    /\ calls = EmptyBag
    /\ config' = cfg
    /\ rateOp' = RateIdle
    /\ UNCHANGED <<keyVars, idemVars, auditVars, clock, limit, calls, allowedInWin, overlap>>

(* ======================== request fingerprint ========================= *)
\* the headers a request may carry: name and first value
HeaderPairs == {[key |-> "Content-Type", value |-> "application/json"],
                [key |-> "X-Request-Id", value |-> "42"]}
\* requests as generateRequestHash sees them
HttpRequests ==
    [method : {"GET", "POST"}, path : {"/payments"}, body : {"", "{}"},
     headers : SUBSET HeaderPairs]
NoRequest == [method |-> "", path |-> "", body |-> "", headers |-> {}]

\* strings.ToLower on a header name
ToLower(key) ==
    CASE key = "Content-Type" -> "content-type"
      [] key = "X-Request-Id" -> "x-request-id"
      [] OTHER -> key

\* the orders in which a range over the headers map may visit its entries: Go
\* leaves the iteration order of a map unspecified
IterationOrders(headers) ==
    {f \in [1..Cardinality(headers) -> headers] :
        \A i, j \in 1..Cardinality(headers) : f[i] = f[j] => i = j}

\* the request string after the loop has appended ":<name>:<value>" for the
\* first n headers of an iteration order
RECURSIVE AppendHeaders(_, _, _)
AppendHeaders(data, order, n) ==
    IF n = 0 THEN data
    ELSE Append(Append(AppendHeaders(data, order, n - 1), ToLower(order[n].key)),
                order[n].value)

\* IdempotencyMiddleware.generateRequestHash for one iteration order of the
\* headers map; the format has four verbs for three arguments, so its fourth
\* field is the constant "%!s(MISSING)"
generateRequestHash(request, order) ==
    LET requestData == <<request.method, request.path, request.body, "%!s(MISSING)">>
    IN  Sha256Hex(AppendHeaders(requestData, order, Cardinality(request.headers)))

\* generateRequestHash is called for a request; the call before it is kept
GenerateRequestHash(request) ==
    /\ \E order \in IterationOrders(request.headers) :
           httpOp' = [op |-> "generateRequestHash", request |-> request,
                      hash |-> generateRequestHash(request, order),
                      prevRequest |-> IF httpOp.op = "generateRequestHash"
                                      THEN httpOp.request ELSE NoRequest,
                      prevHash |-> IF httpOp.op = "generateRequestHash"
                                   THEN httpOp.hash ELSE NoHash]
    /\ UNCHANGED <<keyVars, second, auditLog, recorded, authOp, idemVars, rateVars>>

(* ------------------------- specifications ----------------------------- *)
vars == <<keyVars, idemVars, rateVars, auditVars>>

InitWith(cfg) ==
    /\ now = 0
    /\ accounts = [a \in Accounts |-> IF a = 1 THEN "active" ELSE "none"]
    /\ apiKeys = <<>>
    /\ revoked = {}
    /\ lastOp = Idle
    /\ statusBefore = ""
    /\ idem = <<>>
    /\ reqs = [r \in Requests |-> NewReq]
    /\ idemOp = IdemIdle
    /\ clock = 0
    /\ config = cfg
    /\ limit = NoEntry
    /\ calls = EmptyBag
    /\ rateOp = RateIdle
    /\ allowedInWin = 0
    /\ overlap = FALSE
    /\ second = 0
    /\ auditLog = {}
    /\ recorded = <<>>
    /\ authOp = AuthIdle
    /\ httpOp = HttpIdle

\* main.go wires no rate limiter: the configuration is immaterial there
Init == InitWith([Requests |-> 1, Window |-> 1])
\* a limiter built by ByIP / ByAPIKey / ByEndpoint with some configuration
InitRate == \E cfg \in RateConfigs : InitWith(cfg)

NextKeys ==
    \/ \E a \in Accounts, p \in PermissionInputs, e \in TTLHours \cup {NoTime} :
           IssueApiKeyExecute(a, p, e)
    \/ \E a \in Accounts, p \in PermissionInputs, e \in TTLHours :
           CreateLookupKey(a, p, e)
    \/ \E r \in RawSecrets \cup {NoRaw}, h \in {NoHash} \cup {Bcrypt(i) : i \in KeyIDs},
          ke \in BOOLEAN, ae \in BOOLEAN :
           /\ (r # NoRaw => h = NoHash)
           /\ (ke => ~ae)
           /\ ValidateApiKeyExecute(r, h, ke, ae)
    \/ \E id \in KeyIDs \cup {NoID}, e \in BOOLEAN : RevokeApiKeyExecute(id, e)
    \/ \E a \in Accounts, s \in {"active", "suspended", "deleted"} : SetAccountStatus(a, s)
    \/ \E id \in KeyIDs : PurgeExpiredKey(id)
    \/ TickKeys

SpecKeys == Init /\ [][NextKeys]_vars

\* the listing of an account's keys over a store holding keys of two accounts
NextList ==
    \/ \E a \in Accounts : CreateKeyOf(a)
    \/ \E a \in Accounts \cup {NoID}, lim \in {0, 1, 2, 3, 101}, offset \in {-1, 0, 1, 2} :
           GetAPIKeysExecute(a, lim, offset)

SpecList == Init /\ [][NextList]_vars

NextIdem ==
    \/ \E r \in Requests, t \in {NoToken, ClientToken}, h \in Fingerprints : Arrive(r, t, h)
    \/ \E r \in Requests, e \in BOOLEAN : MwCheck(r, e)
    \/ \E r \in Requests, e \in BOOLEAN : MwCreate(r, e)
    \/ \E r \in Requests, e \in BOOLEAN : MwComplete(r, e)
    \/ \E r \in Requests : Handler(r)
    \/ \E k \in RecordIDs : CompleteIdempotencyExecute(k, HandlerResponse, FALSE)
    \/ \E id \in RecordIDs : PurgeExpiredRecord(id)
    \/ TickIdem

SpecIdem == Init /\ [][NextIdem]_vars

\* the ledger's use cases called directly, without the HTTP middleware
NextLedger ==
    \/ \E t \in {NoToken, ClientToken}, h \in Fingerprints, e \in BOOLEAN :
           CreateIdempotencyExecute(t, h, e)
    \/ \E k \in RecordIDs \cup {NoToken, ClientToken},
          resp \in {HandlerResponse, OtherResponse, ""}, e \in BOOLEAN :
           CompleteIdempotencyExecute(k, resp, e)
    \/ \E id \in RecordIDs : PurgeExpiredRecord(id)
    \/ TickIdem

SpecLedger == Init /\ [][NextLedger]_vars

\* requests of clients fingerprinted one after the other
NextHash == \E request \in HttpRequests : GenerateRequestHash(request)

SpecHash == Init /\ [][NextHash]_vars

\* callers of CompleteIdempotency.Execute running at the same time
NextComplete ==
    \/ \E h \in Fingerprints : CreateIdempotencyExecute(ClientToken, h, FALSE)
    \/ \E r \in Requests, k \in RecordIDs, resp \in {HandlerResponse, OtherResponse},
          e \in BOOLEAN :
           CompleteIdempotencyRead(r, k, resp, e)
    \/ \E r \in Requests, e \in BOOLEAN : CompleteIdempotencyUpdate(r, e)

SpecComplete == Init /\ [][NextComplete]_vars

\* a service that mounts the authentication entry points over the key store;
\* at most one of the key store and account store calls of a request fails
NextAuth ==
    \/ \E p \in {{"read:keys"}}, e \in TTLHours : CreateLookupKey(1, p, e)
    \/ TickKeys
    \/ TickSecond
    \/ \E r \in RawSecrets \cup {NoRaw}, ke \in BOOLEAN, te \in BOOLEAN, ae \in BOOLEAN,
          af \in BOOLEAN :
           /\ ~(ke /\ te) /\ ~(ke /\ ae) /\ ~(te /\ ae)
           /\ RequireAuth(r, ke, te, ae, af)
    \/ \E r \in RawSecrets \cup {NoRaw}, ke \in BOOLEAN, te \in BOOLEAN :
           /\ ~(ke /\ te)
           /\ SharedRequireAuth(r, ke, te)
    \/ \E h \in {NoHash} \cup {Sha256Hex(i) : i \in KeyIDs}, ke \in BOOLEAN, ae \in BOOLEAN :
           /\ ~(ke /\ ae)
           /\ HandlerValidateApiKey(h, ke, ae)

SpecAuth == Init /\ [][NextAuth]_vars

\* routes behind SharedAuthMiddleware.RequireAuth while keys are revoked and expire
NextSharedAuth ==
    \/ \E a \in Accounts, e \in TTLHours : CreateLookupKey(a, {"read:keys"}, e)
    \/ \E id \in KeyIDs : RevokeApiKeyExecute(id, FALSE)
    \/ TickKeys
    \/ \E r \in RawSecrets \cup {NoRaw}, ke \in BOOLEAN : SharedRequireAuth(r, ke, FALSE)

SpecSharedAuth == Init /\ [][NextSharedAuth]_vars

\* the key issuance route, with later validations and listings
NextIssue ==
    \/ \E a \in Accounts \cup {NoID}, p \in PermissionInputs, e \in TTLHours \cup {NoTime, 0},
          auditFail \in BOOLEAN :
           HandlerIssueApiKey(a, p, e, auditFail)
    \/ \E r \in RawSecrets : ValidateApiKeyExecute(r, NoHash, FALSE, FALSE)
    \/ \E a \in Accounts : GetAPIKeysExecute(a, 1, 0)
    \/ \E a \in Accounts, st \in {"active", "suspended"} : SetAccountStatus(a, st)
    \/ TickKeys

SpecIssue == Init /\ [][NextIssue]_vars

\* routes guarded by RequireAuth and RequirePermission, the stores answering
NextPerm ==
    \/ \E p \in {{"read:keys"}, {"read:accounts", "write:keys"}}, e \in TTLHours :
           CreateLookupKey(1, p, e)
    \/ TickKeys
    \/ \E r \in RawSecrets \cup {NoRaw} : RequireAuth(r, FALSE, FALSE, FALSE, FALSE)
    \/ \E p \in {"read:keys", "write:keys"}, b \in BOOLEAN : RequirePermission(p, b)

SpecPerm == Init /\ [][NextPerm]_vars

\* authentication attempts that are audited, and queries of the audit log
NextAudit ==
    \/ \E e \in TTLHours : CreateLookupKey(1, {"read:keys"}, e)
    \/ TickSecond
    \/ \E r \in RawSecrets \cup {NoRaw}, auditFail \in BOOLEAN :
           RequireAuth(r, FALSE, FALSE, FALSE, auditFail)
    \/ \E t \in QueryEventTypes, a \in Accounts \cup {NoID},
          st \in {NoTime, 0}, en \in {NoTime, 1}, lim \in 1..2, storeErr \in BOOLEAN :
           QueryAuditLogs(t, a, st, en, lim, storeErr)

SpecAudit == Init /\ [][NextAudit]_vars

NextRate ==
    \/ \E k \in {RateKey, ""}, e \in BOOLEAN : RateLimitGet(k, e)
    \/ \E e \in BOOLEAN : RateLimitPut(e)
    \/ PurgeExpiredLimit
    \/ TickRate

SpecRate == InitRate /\ [][NextRate]_vars

\* two limiters of the same kind with different configurations on one key
NextRateShared ==
    \/ \E e \in BOOLEAN : RateLimitGet(RateKey, e)
    \/ \E e \in BOOLEAN : RateLimitPut(e)
    \/ PurgeExpiredLimit
    \/ TickRate
    \/ \E cfg \in RateConfigs : UseLimiter(cfg)

SpecRateShared == InitRate /\ [][NextRateShared]_vars

(* ======================= API key registry claims ====================== *)
\* the last call was ValidateApiKey.Execute with a raw secret and returned no error
ValidatedRaw == lastOp.op = "validate" /\ lastOp.raw # NoRaw /\ lastOp.err = ""
\* rows created by IssueApiKey.Execute, whose secret Issue returned
IssuedKeys == {i \in 1..Len(apiKeys) : apiKeys[i].KeyHash = GenerateAPIKeyWithHash(RawSecretOf(i)).keyHash}
\* the stored row the raw secret belongs to: a row with the secret's lookup digest
RowsOfSecret(raw) == {i \in StoredKeys : apiKeys[i].KeyHash = Sha256Hex(raw)}

\* C1: once Revoke has succeeded for a key, every later validation with that
\* key's raw secret returns valid=false.
C1_RevocationFinality ==
    (lastOp.op = "validate" /\ lastOp.raw # NoRaw /\ lastOp.raw \in {RawSecretOf(i) : i \in revoked})
        => ~lastOp.out.Valid

\* a revoked, unexpired key of an active account was looked up by its secret and refused
C1_Witness ==
    /\ ValidatedRaw
    /\ lastOp.id \in revoked
    /\ lastOp.raw = RawSecretOf(lastOp.id)
    /\ now < apiKeys[lastOp.id].ExpiresAt
    /\ accounts[apiKeys[lastOp.id].AccountID] = "active"
    /\ ~lastOp.out.Valid

\* C4 (as stated): validation of a raw secret that resolves to a stored key
\* returns valid=true iff the key is active, now is strictly before its
\* expiry and the owning account is active.
C4_Original ==
    ValidatedRaw =>
        \A i \in RowsOfSecret(lastOp.raw) :
            lastOp.out.Valid <=>
                /\ apiKeys[i].Status = "active"
                /\ now < apiKeys[i].ExpiresAt
                /\ accounts[apiKeys[i].AccountID] = "active"

\* C4 (amended): ... iff the key is active, now is strictly before its expiry
\* and the owning account is active or has no row in the account store.
C4_UsableIff ==
    ValidatedRaw =>
        \A i \in RowsOfSecret(lastOp.raw) :
            lastOp.out.Valid <=>
                /\ apiKeys[i].Status = "active"
                /\ now < apiKeys[i].ExpiresAt
                /\ accounts[apiKeys[i].AccountID] \in {"active", "none"}

\* a secret resolved to a row and was accepted
C4_Witness ==
    /\ ValidatedRaw
    /\ RowsOfSecret(lastOp.raw) # {}
    /\ lastOp.out.Valid
    /\ lastOp.out.AccountStatus = "active"

\* C5: Issue followed by validation with the returned raw secret yields
\* valid=true with the accountID, keyID and permissions of the issued key
\* (account active, permissions from the allow-list, ttl > 0 not yet elapsed).
C5_RoundTrip ==
    \A i \in IssuedKeys :
        (/\ ValidatedRaw
         /\ lastOp.raw = RawSecretOf(i)
         /\ apiKeys[i].stored
         /\ apiKeys[i].Status = "active"
         /\ now < apiKeys[i].ExpiresAt
         /\ accounts[apiKeys[i].AccountID] = "active")
        => /\ lastOp.out.Valid
           /\ lastOp.out.AccountID = apiKeys[i].AccountID
           /\ lastOp.out.APIKeyID = apiKeys[i].ID
           /\ lastOp.out.Permissions = apiKeys[i].Permissions

\* C6: for an issued key that stays active with an active account, validation
\* returns valid=true at every instant before its expiry (issuedAt+T) and
\* valid=false at every instant at or after it.
C6_ExpiryMonotonicity ==
    \A i \in IssuedKeys :
        (/\ ValidatedRaw
         /\ lastOp.raw = RawSecretOf(i)
         /\ apiKeys[i].Status = "active"
         /\ accounts[apiKeys[i].AccountID] = "active")
        => (lastOp.out.Valid <=> (apiKeys[i].stored /\ now < apiKeys[i].ExpiresAt))

(* ===================== API key registry claims (2) ==================== *)
\* the key store and the account store answered the last validation
StoresAnswered == lastOp.err \notin {"failed to validate API key", "failed to get account"}

\* C15: for a raw secret that matches no stored key, or matches a key that is
\* expired or inactive, validation returns valid=false and no error (the
\* stores answering).
C15_RefusalIsNotAnError ==
    (/\ lastOp.op = "validate"
     /\ lastOp.raw # NoRaw
     /\ StoresAnswered
     /\ \A i \in RowsOfSecret(lastOp.raw) :
            apiKeys[i].Status = "inactive" \/ now >= apiKeys[i].ExpiresAt)
    => (lastOp.err = "" /\ ~lastOp.out.Valid)

\* the secret of a stored key past its expiry was validated and refused without error
C15_Witness ==
    /\ lastOp.op = "validate"
    /\ lastOp.err = ""
    /\ ~lastOp.out.Valid
    /\ \E i \in RowsOfSecret(lastOp.raw) :
           apiKeys[i].Status = "active" /\ now > apiKeys[i].ExpiresAt

IdentityOf(out, i) ==
    /\ out.AccountID = apiKeys[i].AccountID
    /\ out.APIKeyID = apiKeys[i].ID
    /\ out.Name = apiKeys[i].Name
    /\ out.Permissions = apiKeys[i].Permissions
    /\ out.ExpiresAt = apiKeys[i].ExpiresAt

\* C22: Issue creates a key record only if the account exists and is active
\* and the permissions are a non-empty subset of the allow-list; in every
\* other case it returns an error and stores no record.
C22_IssuePreconditions ==
    [][lastOp'.op = "issue" =>
          \/ /\ lastOp'.err = ""
             /\ Len(apiKeys') = Len(apiKeys) + 1
             /\ SubSeq(apiKeys', 1, Len(apiKeys)) = apiKeys
             /\ LET row == apiKeys'[Len(apiKeys')] IN
                    /\ accounts[row.AccountID] = "active"
                    /\ row.Permissions # {}
                    /\ row.Permissions \subseteq ValidPermissions
          \/ /\ lastOp'.err # ""
             /\ apiKeys' = apiKeys]_vars

\* Issue for an account without a row was refused and nothing is stored
C22_Witness ==
    /\ lastOp.op = "issue"
    /\ lastOp.err = "account not found or inactive"
    /\ apiKeys = <<>>

\* C23: when the presented secret resolves to a stored key that is not usable,
\* validation returns valid=false with that key's identity fields; the
\* identity fields are absent only when no key is resolved.
C23_IdentityOfUnusableKey ==
    ValidatedRaw =>
        /\ \A i \in RowsOfSecret(lastOp.raw) : ~lastOp.out.Valid => IdentityOf(lastOp.out, i)
        /\ lastOp.out.APIKeyID = NoID => RowsOfSecret(lastOp.raw) = {}

\* C24: for limit in [1,100] and offset >= 0, List returns only keys owned by
\* the account, namely those at positions offset to offset+limit-1 of the
\* account's enumeration (fewer when it has fewer), and total is the number
\* of the account's keys.
C24_ListPage ==
    (lastOp.op = "list" /\ lastOp.err = "") =>
        LET all == KeysOfAccount(lastOp.id)
            last == IF lastOp.out.Offset + lastOp.out.Limit < Len(all)
                    THEN lastOp.out.Offset + lastOp.out.Limit ELSE Len(all)
        IN  /\ lastOp.out.APIKeys = SubSeq(all, lastOp.out.Offset + 1, last)
            /\ \A n \in 1..Len(lastOp.out.APIKeys) :
                   apiKeys[lastOp.out.APIKeys[n]].AccountID = lastOp.id
            /\ lastOp.out.Total = Len(all)

\* C29: when an active, unexpired key resolves and its account has no row in
\* the account store, validation returns valid=true with the key's identity
\* fields and no account status.
C29_MissingAccountIsValid ==
    ValidatedRaw =>
        \A i \in RowsOfSecret(lastOp.raw) :
            (/\ apiKeys[i].Status = "active"
             /\ now < apiKeys[i].ExpiresAt
             /\ accounts[apiKeys[i].AccountID] = "none")
            => /\ lastOp.out.Valid
               /\ IdentityOf(lastOp.out, i)
               /\ lastOp.out.AccountStatus = ""

\* a key of an account without a row was accepted
C29_Witness ==
    /\ ValidatedRaw
    /\ lastOp.out.Valid
    /\ lastOp.out.APIKeyID # NoID
    /\ accounts[lastOp.out.AccountID] = "none"
    /\ lastOp.out.AccountStatus = ""

\* C30: ApiKey.IsExpired is true at every instant at or after ExpiresAt and
\* false at every instant before it.
C30_ExpiredAtOrAfter ==
    \A i \in StoredKeys :
        ApiKeyIsExpired(apiKeys[i], now) <=> now >= apiKeys[i].ExpiresAt

\* the stored rows a validation was aimed at: by the raw secret or by the key hash
RowsAimedAt ==
    {i \in StoredKeys :
        \/ lastOp.raw # NoRaw /\ lastOp.raw = RawSecretOf(apiKeys[i].ID)
        \/ lastOp.hash # NoHash /\ lastOp.hash = apiKeys[i].KeyHash}

\* C31: when Issue is called without a ttl the expiry of the key is the
\* issuance instant, no later step moves the expiry or turns the clock back,
\* and a validation aimed at a key whose expiry is not in the future returns
\* valid=false: the key is refused at every instant at or after issuance.
C31_NoTtlNeverValid ==
    /\ [][\A a \in Accounts, p \in PermissionInputs :
              (IssueApiKeyExecute(a, p, NoTime) /\ lastOp'.err = "")
                  => /\ lastOp'.id \in StoredKeys'
                     /\ apiKeys'[lastOp'.id].ExpiresAt = now
                     /\ lastOp'.out.ExpiresAt = now]_vars
    /\ [][/\ now' >= now
          /\ \A i \in 1..Len(apiKeys) : apiKeys'[i].ExpiresAt = apiKeys[i].ExpiresAt]_vars
    /\ []((lastOp.op = "validate" /\ lastOp.err = "")
              => \A i \in RowsAimedAt : apiKeys[i].ExpiresAt <= now => ~lastOp.out.Valid)

\* a key issued by the use case was resolved by its hash at the very instant
\* of its expiry, its record and its account active, and was refused
C31_Witness ==
    /\ lastOp.op = "validate"
    /\ lastOp.err = ""
    /\ lastOp.id \in StoredKeys
    /\ apiKeys[lastOp.id].KeyHash = Bcrypt(RawSecretOf(lastOp.id))
    /\ apiKeys[lastOp.id].ExpiresAt = now
    /\ apiKeys[lastOp.id].Status = "active"
    /\ accounts[apiKeys[lastOp.id].AccountID] = "active"
    /\ lastOp.out.APIKeyID = lastOp.id
    /\ ~lastOp.out.Valid

(* ======================== authentication claims ======================= *)
\* the last request went through AuthMiddleware.RequireAuth
ViaRequireAuth == authOp.entry = "RequireAuth"
\* the seconds since an audit event was recorded
AgeOf(event) == AuditTime - event.Timestamp.unix

\* C11 (as stated): if the key store or the account store returns an error
\* during authentication, the request is rejected with a 5xx failure and the
\* protected handler is not invoked.
C11_Original ==
    (ViaRequireAuth /\ (authOp.keyErr \/ authOp.touchErr \/ authOp.acctErr))
        => (authOp.code >= 500 /\ ~authOp.next)

\* C11 (amended): if the key lookup or the account lookup returns an error
\* during authentication, the request is rejected with a 5xx failure and the
\* protected handler is not invoked.
C11_FailsClosed ==
    (ViaRequireAuth /\ (authOp.keyErr \/ authOp.acctErr))
        => (authOp.code >= 500 /\ ~authOp.next)

\* the account lookup failed for a stored, unexpired key and the request was rejected
C11_Witness ==
    /\ ViaRequireAuth
    /\ authOp.acctErr
    /\ authOp.res.id \in StoredKeys
    /\ authOp.code = 500
    /\ ~authOp.next

\* C16: whether the audit store accepts or fails the write, the answer of
\* RequireAuth is the one the request and the validation result determine.
C16_AuditNonInterference ==
    ViaRequireAuth =>
        LET passes == /\ authOp.raw # NoRaw
                      /\ authOp.res.err = ""
                      /\ authOp.res.out.Valid
                      /\ authOp.res.out.AccountID # NoID
        IN  /\ authOp.next <=> passes
            /\ authOp.code = IF authOp.raw = NoRaw THEN 401
                             ELSE IF authOp.res.err # "" THEN 500
                             ELSE IF passes THEN 0 ELSE 401

\* the audit store refused the write and the request was authenticated all the same
C16_Witness ==
    /\ ViaRequireAuth
    /\ authOp.auditFail
    /\ authOp.next
    /\ authOp.res.out.Valid

\* C17: every authentication attempt, whatever its outcome and whichever entry
\* point handles it, forwards an authentication event to the audit recorder.
C17_EveryAttemptAudited ==
    authOp.entry # "none" => authOp.forwarded

\* C18: recording an event never replaces or removes an earlier one: every
\* event recorded less than 90 days ago is still stored unchanged.
C18_AppendOnly ==
    \A i \in 1..Len(recorded) :
        AgeOf(recorded[i]) < AuditTTL => recorded[i] \in auditLog

\* C26: RequirePermission(p) passes a request on only if the request context
\* holds an authenticated permission set that contains p; it answers 401 when
\* no authenticated context is present and 403 when the set lacks p.
C26_PermissionGate ==
    httpOp.op = "RequirePermission" =>
        /\ httpOp.next =>
               /\ httpOp.locals.set
               /\ httpOp.permission \in httpOp.locals.permissions
        /\ ~httpOp.locals.set => (httpOp.code = 401 /\ ~httpOp.next)
        /\ (httpOp.locals.set /\ httpOp.permission \notin httpOp.locals.permissions)
               => (httpOp.code = 403 /\ ~httpOp.next)

\* an authenticated request whose key lacks the permission was answered 403
C26_Witness ==
    /\ httpOp.op = "RequirePermission"
    /\ httpOp.locals.set
    /\ httpOp.locals.permissions # {}
    /\ httpOp.permission \notin httpOp.locals.permissions
    /\ httpOp.code = 403

\* C25: an audit query with neither a category nor an account is rejected
\* with an error and reads nothing from the store.
C25_UnfilteredQueryRejected ==
    (/\ httpOp.op = "QueryAuditLogs"
     /\ httpOp.eventType = ""
     /\ httpOp.accountID = NoID)
        => (httpOp.err # "" /\ httpOp.reads = 0 /\ httpOp.events = {})

\* such a query was made while the audit log held rows
C25_Witness ==
    /\ httpOp.op = "QueryAuditLogs"
    /\ httpOp.eventType = ""
    /\ httpOp.accountID = NoID
    /\ auditLog # {}
    /\ httpOp.err = "at least one of eventType or accountID must be provided"

\* a filtered query returned rows (the queries of this model do read the log)
C25_FilteredQueryReads ==
    /\ httpOp.op = "QueryAuditLogs"
    /\ httpOp.reads = 1
    /\ httpOp.events # {}

\* C32: SharedAuthMiddleware.RequireAuth calls the next handler only for a
\* request whose secret resolves to a key that is active and unexpired; a
\* request presenting a revoked (inactive) key is answered 401 and gets no
\* identity context.
C32_SharedAuthUsableKeysOnly ==
    [][(authOp' # authOp /\ authOp'.entry = "SharedRequireAuth") =>
          /\ authOp'.next =>
                 /\ authOp'.res.id \in RowsOfSecret(authOp'.raw)
                 /\ apiKeys[authOp'.res.id].Status = "active"
                 /\ now < apiKeys[authOp'.res.id].ExpiresAt
          /\ (/\ authOp'.raw # NoRaw
              /\ ~authOp'.keyErr
              /\ \E i \in RowsOfSecret(authOp'.raw) : apiKeys[i].Status = "inactive")
                 => (authOp'.code = 401 /\ ~authOp'.next /\ authOp'.res.id = NoID)]_vars

\* what the middleware does keep: the next handler is called only for a
\* stored key that ValidateByKey returned, one that IsExpired does not report
C32_SharedAuthResolvedOnly ==
    [][(authOp' # authOp /\ authOp'.entry = "SharedRequireAuth" /\ authOp'.next) =>
          /\ authOp'.res.id \in RowsOfSecret(authOp'.raw)
          /\ now <= apiKeys[authOp'.res.id].ExpiresAt]_vars

\* a revoked key, not yet expired, was passed on with its identity
C32_RevokedKeyPassed ==
    /\ authOp.entry = "SharedRequireAuth"
    /\ authOp.next
    /\ authOp.res.id \in revoked
    /\ apiKeys[authOp.res.id].Status = "inactive"
    /\ now < apiKeys[authOp.res.id].ExpiresAt

(* ========================= audit query claims ========================= *)
\* the authentication events the store accepted whose time lies in a range
\* (NoTime: the range is open on that side)
RecordedIn(startTime, endTime) ==
    {recorded[i] : i \in {j \in 1..Len(recorded) :
        /\ recorded[j].EventType = "authentication"
        /\ (startTime # NoTime /\ endTime # NoTime)
              => (startTime <= recorded[j].Timestamp.unix
                  /\ recorded[j].Timestamp.unix <= endTime)}}

\* C36: an audit event recorded under category c at time t is returned by
\* every later query for category c whose time range contains t, while the
\* event is within its 90-day retention (all events of the model are); the
\* limit of the query is at least the number of events recorded.
C36_QueryReturnsRecorded ==
    [][\A st \in {NoTime, 0}, en \in {NoTime, 1}, lim \in 1..2 :
          (/\ QueryAuditLogs("authentication", NoID, st, en, lim, FALSE)
           /\ lim >= Len(recorded))
              => /\ httpOp'.err = ""
                 /\ RecordedIn(st, en) \subseteq httpOp'.events]_vars

\* a query for the authentication category returned nothing although an
\* authentication event sits in the store
C36_CategoryQueryEmpty ==
    /\ httpOp.op = "QueryAuditLogs"
    /\ httpOp.eventType = "authentication"
    /\ httpOp.err = ""
    /\ httpOp.events = {}
    /\ \E x \in auditLog : x.EventType = "authentication"

\* what the query does return: asked for the category and date of a partition
\* key, the stored rows of that partition up to the limit
C36_PartitionQuery ==
    [][\A lim \in 1..2 :
          (/\ QueryAuditLogs("AUTH#0", NoID, NoTime, NoTime, lim, FALSE)
           /\ lim >= Cardinality(auditLog))
              => httpOp'.events = {x \in auditLog : x.PK = AuditQueryPK("AUTH#0")}]_vars

(* ======================= key issuance claims ========================== *)
\* a key row holds the raw secret itself where it should hold a digest
Plain(raw) == [alg |-> "plain", of |-> raw]
SecretStored(raw) ==
    \E i \in 1..Len(apiKeys) : apiKeys[i].KeyHash \in {Plain(raw), KeyHashIndex(Plain(raw))}

\* C21: the raw secret of a key is returned to the caller exactly once, in
\* the result of the Issue call that created the key, and is never persisted:
\* the response of a successful issuance carries the secret the use case
\* generated, and no stored row holds it.
C21_SecretReturnedOnce ==
    (httpOp.op = "IssueApiKey" /\ httpOp.code = 201)
        => /\ httpOp.secret # NoRaw
           /\ httpOp.body.APIKey = httpOp.secret
           /\ ~SecretStored(httpOp.secret)

\* the part of C21 that the code keeps: a key was issued over the route, its
\* row is stored and holds a digest of the secret, not the secret
C21_NotPersisted ==
    (httpOp.op = "IssueApiKey" /\ httpOp.code = 201)
        => /\ httpOp.body.APIKeyID \in StoredKeys
           /\ apiKeys[httpOp.body.APIKeyID].KeyHash = Bcrypt(httpOp.secret)
           /\ ~SecretStored(httpOp.secret)

(* ==================== idempotency ledger claims (3) =================== *)
\* a request without an idempotency header that the Check step has handled
Headerless(r) == reqs[r].token = NoToken /\ reqs[r].pc \notin {"idle", "check"}

\* C28: a request without an idempotency header passes through the Check,
\* Create and Complete steps to the next handler: no step answers it, no
\* ledger use case is executed for it and its steps leave the ledger as it was.
C28_HeaderlessPassThrough ==
    /\ [](\A r \in Requests : Headerless(r) =>
              /\ ~reqs[r].ledger
              /\ reqs[r].seen = {}
              /\ reqs[r].outcome \in {"", "next"}
              /\ reqs[r].pc = "answered" => (reqs[r].code = 200 /\ reqs[r].body = HandlerResponse))
    /\ [][\A r \in Requests :
              (reqs[r].token = NoToken /\ reqs'[r] # reqs[r]) => idem' = idem]_vars

\* a request without the header was answered by the handler while the ledger
\* held a record
C28_Witness ==
    \E r \in Requests :
        /\ reqs[r].token = NoToken
        /\ reqs[r].pc = "answered"
        /\ reqs[r].body = HandlerResponse
        /\ StoredRecords # {}

(* ==================== idempotency ledger claims (4) =================== *)
\* the callers whose Complete of record k succeeded
Completers(k) == {r \in Requests : reqs[r].token = k /\ reqs[r].outcome = "completed"}

\* C34: when two Complete calls for the same pending record run concurrently,
\* at most one of them succeeds, and the stored response is the one passed by
\* the call that succeeded.
C34_OneCompleteWins ==
    \A k \in RecordIDs :
        /\ Cardinality(Completers(k)) <= 1
        /\ \A r \in Completers(k) : idem[k].Response = reqs[r].body

\* two calls with different responses both succeeded on one record
C34_BothSucceeded ==
    \E k \in RecordIDs, r1, r2 \in Requests :
        /\ r1 # r2
        /\ {r1, r2} \subseteq Completers(k)
        /\ reqs[r1].body # reqs[r2].body
        /\ reqs[r1].status = "pending"
        /\ reqs[r2].status = "pending"
        /\ idem[k].Status = "completed"

\* C35: after Begin has created a pending record for a fingerprint, every
\* Check for the same fingerprint made before Complete and within 24 hours
\* finds that record and reports pending, never absent.
C35_PendingIsFound ==
    \A r \in Requests :
        (/\ reqs[r].token # NoToken
         /\ reqs[r].ledger
         /\ reqs[r].pc # "check"
         /\ reqs[r].outcome # "error"
         /\ \E row \in reqs[r].seen : row.Status = "pending" /\ ~row.expired)
        => reqs[r].status = "pending"

\* C37: generateRequestHash is deterministic: two requests with the same
\* method, path, body and header values get the same fingerprint.
C37_FingerprintDeterministic ==
    (httpOp.op = "generateRequestHash" /\ httpOp.prevRequest = httpOp.request)
        => httpOp.prevHash = httpOp.hash

\* the same for requests with at most one header
C37_DeterministicOneHeader ==
    (/\ httpOp.op = "generateRequestHash"
     /\ httpOp.prevRequest = httpOp.request
     /\ Cardinality(httpOp.request.headers) <= 1)
        => httpOp.prevHash = httpOp.hash

\* the fingerprint does tell requests apart: two different requests got
\* different fingerprints
C37_DistinctRequests ==
    /\ httpOp.op = "generateRequestHash"
    /\ httpOp.prevRequest \in HttpRequests
    /\ httpOp.prevRequest # httpOp.request
    /\ httpOp.prevHash # httpOp.hash

(* ======================== rate limiter claims (2) ===================== *)
\* C27: when CheckRateLimit denies a request, the rate-limit middleware
\* answers 429 with a retry-after hint equal to the window length in seconds
\* and does not call the next handler.
C27_DenialAnswer ==
    (rateOp.op = "check" /\ rateOp.branch = "deny" /\ rateOp.err = "")
        => /\ ~rateOp.allowed
           /\ rateOp.code = 429
           /\ rateOp.retryAfter = config.Window

\* a call was denied under the longer window, after the clock had moved
C27_Witness ==
    /\ rateOp.op = "check"
    /\ rateOp.branch = "deny"
    /\ rateOp.code = 429
    /\ config.Window = 2
    /\ rateOp.at > 0
    /\ rateOp.retryAfter = 2

(* ======================== rate limiter claims (3) ===================== *)
\* C33: under every interleaving of concurrent CheckRateLimit calls for one
\* key inside one window, each reading and then writing the counter as two
\* store operations, the calls that return allowed=true number at most the
\* ceiling.
C33_AllowedWithinCeiling == allowedInWin <= config.Requests

\* what the code does keep under interleaving: overlapping calls were allowed
\* beyond the ceiling while the stored count stayed within it
C33_LostUpdate ==
    /\ overlap
    /\ allowedInWin > config.Requests
    /\ limit.Count <= config.Requests

\* C38: the windowResetAt that CheckRateLimit returns, sent as
\* X-RateLimit-Reset, is the stored expiry of the window in which the call was
\* counted; for a call counted in an existing window it is the expiry set
\* when that window was created.
C38_ResetTimeIsStoredExpiry ==
    (rateOp.op = "check" /\ rateOp.err = "" /\ rateOp.allowed)
        => rateOp.resetTime = rateOp.put.ExpiresAt

\* the part the code keeps: a call that creates or resets the counter returns
\* the expiry it stores
C38_NewWindowResetTime ==
    (rateOp.op = "check" /\ rateOp.err = "" /\ rateOp.branch \in {"create", "reset"})
        => rateOp.resetTime = rateOp.put.ExpiresAt

\* a call counted in an existing window returned a later instant than the
\* expiry of that window
C38_LaterThanExpiry ==
    /\ rateOp.op = "check"
    /\ rateOp.branch = "incr"
    /\ ~overlap
    /\ rateOp.put.ExpiresAt = limit.ExpiresAt
    /\ rateOp.resetTime > limit.ExpiresAt

\* max(0, n)
AtLeastZero(n) == IF n < 0 THEN 0 ELSE n

\* the stored count as the last call left it: the count it put, or the count
\* it read when it put nothing
CountAfterCall ==
    IF rateOp.put = NoEntry THEN rateOp.read.Count ELSE rateOp.put.Count

\* C39: on every CheckRateLimit call that returns without error, remaining is
\* max(0, ceiling - stored count after the call); in particular remaining is
\* 0 on every denied call.
C39_Remaining ==
    (rateOp.op = "check" /\ rateOp.err = "")
        => /\ rateOp.remaining = AtLeastZero(config.Requests - CountAfterCall)
           /\ ~rateOp.allowed => rateOp.remaining = 0

\* a call was denied on a counter that another limiter of the same name had
\* taken past this limiter's ceiling
C39_DeniedPastCeiling ==
    /\ rateOp.op = "check"
    /\ rateOp.branch = "deny"
    /\ rateOp.read.Count > config.Requests
    /\ rateOp.remaining > 0

\* C40: an allowed CheckRateLimit call inside an existing window increments
\* the count and leaves the stored expiry of the window unchanged; the stored
\* expiry changes only when a counter is created or is reset after its window
\* has elapsed.
C40_ExpiryFixedInWindow ==
    [][/\ (rateOp'.op = "check" /\ rateOp'.branch = "incr" /\ rateOp'.allowed)
            => (limit'.Count = limit.Count + 1 /\ limit'.ExpiresAt = limit.ExpiresAt)
       /\ (limit'.Key # "" /\ limit'.ExpiresAt # limit.ExpiresAt)
            => /\ rateOp'.op = "check"
               /\ \/ rateOp'.branch = "create" /\ limit.Key = ""
                  \/ rateOp'.branch = "reset" /\ limit.ExpiresAt < Unix(clock)]_vars

\* the same for calls that write while the counter is as they read it
C40_ExpiryFixedWhenUnraced ==
    [][(rateOp'.op = "check" => limit = rateOp'.read) =>
       /\ (rateOp'.op = "check" /\ rateOp'.branch = "incr" /\ rateOp'.allowed)
            => (limit'.Count = limit.Count + 1 /\ limit'.ExpiresAt = limit.ExpiresAt)
       /\ (limit'.Key # "" /\ limit'.ExpiresAt # limit.ExpiresAt)
            => /\ rateOp'.op = "check"
               /\ \/ rateOp'.branch = "create" /\ limit.Key = ""
                  \/ rateOp'.branch = "reset" /\ limit.ExpiresAt < Unix(clock)]_vars

(* ======================= idempotency ledger claims ==================== *)
\* unexpired pending rows stored for a fingerprint
PendingFor(h) ==
    {i \in StoredRecords :
        /\ idem[i].RequestHash = h
        /\ idem[i].Status = "pending"
        /\ ~IdempotencyKeyIsExpired(idem[i], now)}

\* a request that the Check and Create steps have passed on or answered
PastBegin(r) == reqs[r].outcome \in {"next", "conflict"}

\* C2: for any fingerprint at most one idempotency record is pending at any
\* time: a second Begin for a fingerprint with a pending record creates no
\* second record.
C2_AtMostOnePending ==
    \A h \in Fingerprints : Cardinality(PendingFor(h)) <= 1

\* C3: of two requests with the same token and fingerprint processed
\* concurrently, under every interleaving of their Check and Begin steps
\* exactly one is passed on to the handler and the other is answered 409.
C3_ExactlyOneProceeds ==
    \A r1, r2 \in Requests :
        (/\ r1 < r2
         /\ reqs[r1].token # NoToken
         /\ reqs[r1].token = reqs[r2].token
         /\ reqs[r1].hash = reqs[r2].hash
         /\ PastBegin(r1)
         /\ PastBegin(r2)
         /\ CompletedFor(reqs[r1].hash) = {}
         /\ now <= IdempotencyTTL)
        => \E p, q \in {r1, r2} :
              /\ reqs[p].outcome = "next"
              /\ reqs[q].outcome = "conflict" /\ reqs[q].code = 409

\* C7: once a request with a token has completed with response R, a later
\* request with the same token and fingerprint within the retention period is
\* answered R and is not passed on to the handler.
C7_CachedReplay ==
    \A r \in Requests :
        (/\ reqs[r].token # NoToken
         /\ reqs[r].pc \notin {"idle", "check"}
         /\ reqs[r].outcome # "error"
         /\ reqs[r].completedSeen # {})
        => /\ reqs[r].outcome = "cached"
           /\ reqs[r].code = 200
           /\ reqs[r].body \in reqs[r].completedSeen

(* ==================== idempotency ledger claims (2) =================== *)
\* a request with a token whose Check step returned without error
CheckedReq(r) ==
    /\ reqs[r].token # NoToken
    /\ reqs[r].pc \notin {"idle", "check"}
    /\ reqs[r].status # ""

C13_CheckOutcomes ==
    \A r \in Requests :
        CheckedReq(r) =>
            /\ (\A x \in reqs[r].seen : x.expired) =>
                  reqs[r].outcome \notin {"conflict", "cached"}
            /\ (reqs[r].seen # {} /\ \A x \in reqs[r].seen : ~x.expired /\ x.Status = "pending") =>
                  reqs[r].outcome = "conflict" /\ reqs[r].code = 409
            /\ (reqs[r].seen # {} /\ \A x \in reqs[r].seen : ~x.expired /\ x.Status = "completed") =>
                  /\ reqs[r].outcome = "cached"
                  /\ reqs[r].body \in {x.Response : x \in reqs[r].seen}

\* C14: at every instant later than 24 hours after its creation a record
\* that is still stored, pending or completed, is reported expired by Check.
C14_ExpiredAfterRetention ==
    \A r \in Requests :
        (CheckedReq(r) /\ reqs[r].seen # {} /\ \A x \in reqs[r].seen : x.expired)
            => reqs[r].status = "expired"

(* ========================== rate limiter claims ======================= *)
\* the last createHandler call ran CheckRateLimit and it returned no error
Checked == rateOp.op = "check" /\ rateOp.err = ""
\* the instant of an epoch second: time.Unix(sec, 0)
InstantOf(sec) == 2 * sec

\* C8: for every sequence of CheckRateLimit calls with ceiling N, the stored
\* count never exceeds N.
C8_CountWithinCeiling ==
    limit.Key # "" => limit.Count <= config.Requests

\* the counter stands at a ceiling of at least 2 and a call was refused
C8_Witness ==
    /\ Checked
    /\ rateOp.branch = "deny"
    /\ config.Requests >= 2
    /\ limit.Count = config.Requests

\* C9: with ceiling N and non-overlapping calls inside one window, the first
\* call creates the counter at 1 with windowResetAt = now+window and is
\* allowed, a later call is allowed exactly while the incremented count is at
\* most N, and a call made after N calls were allowed in the window is denied.
C9_SequentialWindow ==
    (Checked /\ ~overlap) =>
        /\ rateOp.branch = "create" =>
              /\ rateOp.allowed
              /\ limit = rateOp.put
              /\ limit.Count = 1
              /\ limit.ExpiresAt = Unix(TimeAdd(rateOp.at, config.Window))
              /\ rateOp.resetTime = limit.ExpiresAt
        /\ rateOp.branch \in {"incr", "deny"} =>
              /\ rateOp.read.Count = rateOp.before
              /\ rateOp.allowed <=> (rateOp.read.Count + 1 <= config.Requests)
              /\ rateOp.allowed => limit.Count = rateOp.read.Count + 1
              /\ rateOp.before >= config.Requests => ~rateOp.allowed

\* after N >= 2 allowed calls, none overlapping, a call in the window is refused
C9_Witness ==
    /\ Checked
    /\ ~overlap
    /\ rateOp.branch = "deny"
    /\ config.Requests >= 2
    /\ rateOp.before = config.Requests

\* C10 (as stated): a call made at any instant later than the counter's
\* windowResetAt resets the count to 1, starts a new window and is allowed.
C10_Original ==
    (Checked /\ rateOp.read.Key # "" /\ rateOp.at > InstantOf(rateOp.read.ExpiresAt)) =>
        /\ rateOp.allowed
        /\ rateOp.put.Count = 1
        /\ rateOp.put.ExpiresAt = Unix(TimeAdd(rateOp.at, config.Window))

\* C10 (amended): a call made in an epoch second later than the counter's
\* windowResetAt resets the count to 1, starts a new window and is allowed,
\* even if the previous window was exhausted.
C10_ResetAfterWindow ==
    (Checked /\ rateOp.read.Key # "" /\ Unix(rateOp.at) > rateOp.read.ExpiresAt) =>
        /\ rateOp.allowed
        /\ rateOp.put.Count = 1
        /\ rateOp.put.ExpiresAt = Unix(TimeAdd(rateOp.at, config.Window))

\* an exhausted counter whose window had elapsed was reset by an allowed call
C10_Witness ==
    /\ Checked
    /\ rateOp.branch = "reset"
    /\ rateOp.read.Count >= config.Requests
    /\ Unix(rateOp.at) > rateOp.read.ExpiresAt
    /\ rateOp.allowed
    /\ limit.Count = 1

====
